---- MODULE Spec2Model ----
(***************************************************************************)
(* The per-tab sequential insight-generation pipeline of the dashboard:    *)
(* the insight cache (cached_generate_insights), the LLM client            *)
(* (generate_insights_with_gpt4o) and the tab progress controller          *)
(* (display_insights), driven by streamlit script runs.                    *)
(*                                                                         *)
(* Time is counted in ticks of half a second: the throttle interval of     *)
(* 1.0 s is 2 ticks and the 0.5 s sleep before st.rerun() is 1 tick.       *)
(* Relative times are kept instead of a wall clock and saturate at TimeCap.*)
(***************************************************************************)
EXTENDS Integers, Sequences, FiniteSets, TLC

\* ------------------------------------------------------------------ bounds
MaxTriggers == 2      \* clicks of "Generate Insights" in one behaviour
MaxDisturbances == 1  \* edits, controller faults and failed requests in one behaviour
MaxEvents == 2        \* clicks that start a run, edits, faults and failed requests together
MaxCallTicks == 1     \* longest completion request, in ticks
MaxFresh == 33        \* new keys presented to the cache on its own
MaxTextLen == 5       \* characters of a response parsed on its own
MaxRecalls == 1       \* repeated keys presented to the cache on its own

\* ------------------------------------------------------- program constants
NumTabs == 8            \* len(tab_names)
CacheMaxSize == 32      \* lru_cache(maxsize=32)
ThrottleInterval == 2   \* 1.0 s
RerunSleep == 1         \* 0.5 s
HealthTab == 3          \* is_health_tab = (tab_index == 3)

tab_names ==
  << "Overview", "Adverse Events", "Perceived Benefits", "Health Outcomes",
     "Research Trends", "Contradictions & Conflicts", "Bias in Research",
     "Publication Level" >>

Tabs == 0 .. (NumTabs - 1)

Min(a, b) == IF a < b THEN a ELSE b

\* The program only asks whether less than the throttle interval has gone by:
\* relative times saturate there.
TimeCap == ThrottleInterval

\* ------------------------------------------------------------ the documents
Docs == {"D1", "D2"}

\* The labels of the eight panels: the topic_name each panel hands to
\* display_insights.  The health panel is the "Oral Health" one.
PanelTopic ==
  << "Overview", "Adverse Events", "Perceived Benefits", "Oral Health",
     "Research Trends", "Contradictions & Conflicts", "Bias in Research",
     "Publication Level" >>

TopicNameOf(tab_index) == PanelTopic[tab_index + 1]

SubTopics == {"Respiratory Health", "Cardiovascular Health"}

TopicNames == {PanelTopic[i] : i \in 1 .. NumTabs} \cup SubTopics

\* "Oral Health" in topic_name, over the names above.
ContainsOralHealth(topic_name) == topic_name = "Oral Health"

\* f"generated_{topic_name.lower().replace(' & ', '_').replace(' ', '_')}_insights"
InsightsKey(topic_name) ==
  CASE topic_name = "Overview" -> "generated_overview_insights"
    [] topic_name = "Adverse Events" -> "generated_adverse_events_insights"
    [] topic_name = "Perceived Benefits" -> "generated_perceived_benefits_insights"
    [] topic_name = "Oral Health" -> "generated_oral_health_insights"
    [] topic_name = "Research Trends" -> "generated_research_trends_insights"
    [] topic_name = "Contradictions & Conflicts"
         -> "generated_contradictions_conflicts_insights"
    [] topic_name = "Bias in Research" -> "generated_bias_in_research_insights"
    [] topic_name = "Publication Level" -> "generated_publication_level_insights"
    [] topic_name = "Respiratory Health" -> "generated_respiratory_health_insights"
    [] topic_name = "Cardiovascular Health"
         -> "generated_cardiovascular_health_insights"

TokenUsageKey(insights_key) == insights_key \o "_token_usage"

InsightKeys == {InsightsKey(t) : t \in TopicNames}

StoreKeys == InsightKeys \cup {TokenUsageKey(k) : k \in InsightKeys}

Absent == [kind |-> "absent"]

\* The focus prompt that goes with a topic (one fixed text per topic).
FocusPromptOf(topic_name) == "focus: " \o topic_name

\* The documents of the table that hold a value for the schema of a topic.
\* Topic "Contradictions & Conflicts" has no coded value in any document;
\* D2 holds values for the overview and cardiovascular schemas only.
DocsWithData(topic_name) ==
  CASE topic_name = "Contradictions & Conflicts" -> {}
    [] topic_name \in {"Overview", "Cardiovascular Health"} -> {"D1", "D2"}
    [] OTHER -> {"D1"}

\* extract_research_insights_from_docs, reduced to what the controller reads
\* of it: the documents of matching_docs that end up in the bundle.  The
\* bundle is empty exactly when this set is, and json.dumps of the bundle is
\* determined by it.
ResearchInsights(docs, topic_name) == docs \cap DocsWithData(topic_name)

\* ---------------------------------------------------------------- the cache
\* The 4-tuple of arguments of cached_generate_insights.
Key(data, api_key, topic_name, prompt) ==
  [insights_data_str |-> data, api_key |-> api_key,
   topic_name |-> topic_name, custom_focus_prompt |-> prompt]

\* {"prompt_tokens": 0, "completion_tokens": 0, "total_tokens": 0}
ZeroUsage == [prompt_tokens |-> 0, completion_tokens |-> 0, total_tokens |-> 0]

\* topic_name.lower()
Lower(topic_name) ==
  CASE topic_name = "Overview" -> "overview"
    [] topic_name = "Adverse Events" -> "adverse events"
    [] topic_name = "Perceived Benefits" -> "perceived benefits"
    [] topic_name = "Oral Health" -> "oral health"
    [] topic_name = "Research Trends" -> "research trends"
    [] topic_name = "Contradictions & Conflicts" -> "contradictions & conflicts"
    [] topic_name = "Bias in Research" -> "bias in research"
    [] topic_name = "Publication Level" -> "publication level"
    [] topic_name = "Respiratory Health" -> "respiratory health"
    [] topic_name = "Cardiovascular Health" -> "cardiovascular health"

\* [f"No {topic_name.lower()} insights found in the filtered documents."]
\* bullets is the list returned, each bullet as the pieces of its f-string.
NoInsightsFound(topic_name) ==
  [kind |-> "no_insights", topic |-> topic_name, call |-> 0,
   bullets |-> << << "No ", Lower(topic_name),
                     " insights found in the filtered documents." >> >>]

\* The outcome of one call of the client with a bundle that is not empty:
\*   "ok"         the request answers and the answer is parsed;
\*   "error"      the request, or the parsing of its answer, raises;
\*   "no_request" OpenAI(api_key=...) or the building of the prompt raises.
Outcomes == {"ok", "error", "no_request"}

\* str(e), the message of the exception of an outcome.
MessageOf(outcome) == "exception: " \o outcome

\* [f"Error generating {topic_name.lower()} insights: {str(e)}"]
ErrorInsights(key, n, outcome) ==
  [kind |-> "error", key |-> key, call |-> n,
   bullets |-> << << "Error generating ", Lower(key.topic_name), " insights: ",
                     MessageOf(outcome) >> >>]

VARIABLES
  cache,        \* the lru_cache: <<[key, val]>>, least recently used first
  gen_calls,    \* number of invocations of generate_insights_with_gpt4o so far
  failures,     \* number of calls of the client that raised inside so far
  last_api_call,\* ticks since st.session_state.last_api_call, -1 while unset
  since_llm,    \* ghost: ticks since the last completion request returned, -1 if none
  call_log,     \* ghost (cache on its own): every call of cached_generate_insights
  fresh,        \* cache on its own: number of new keys presented
  recalls       \* cache on its own: number of repeated keys presented

VARIABLES
  openai_api_key,         \* st.session_state.openai_api_key
  matching_docs,          \* the documents the filters select
  insights_in_progress,   \* st.session_state.insights_in_progress
  current_processing_tab, \* st.session_state.current_processing_tab
  current_tab_index,      \* st.session_state.current_tab_index
  completed_tabs,         \* st.session_state.completed_tabs
  progress_status,        \* st.session_state.progress_status
  store,                  \* st.session_state[...]: results and usage records
  triggers,               \* clicks of "Generate Insights" so far
  disturbances,           \* edits, controller faults and failed requests so far
  last_run,               \* ghost: what the latest script run did
  run_log                 \* ghost: what happened since the latest Trigger

VARIABLES
  insights_text,  \* the response parsed on its own: response.choices[0].message.content
  bullet_points,  \* what the parsing made of it
  parse_done      \* whether insights_text was parsed

parseVars == << insights_text, bullet_points, parse_done >>

VARIABLES
  client_in,   \* the client called on its own: its arguments and the outcome
  client_out   \* what the call returned and did, Absent before the call

clientVars == << client_in, client_out >>

VARIABLES
  df,          \* the table extracted from on its own: its rows in order
  extract_in,  \* the other arguments: matching_docs, categories_to_extract
  extract_out  \* the bundles the calls returned so far

extractVars == << df, extract_in, extract_out >>

\* The sessions of one process that call cached_generate_insights: for each
\* session its position (idle, or inside the generation function after a
\* miss) and its latest call.
VARIABLES callers

sharedVars == << callers >>

cacheVars == << cache, gen_calls, failures, last_api_call, since_llm >>

cacheGhosts == << call_log, fresh, recalls >>

sessionVars ==
  << openai_api_key, matching_docs, insights_in_progress,
     current_processing_tab, current_tab_index, completed_tabs, progress_status,
     store, triggers, disturbances, last_run, run_log >>

funVars == << parseVars, clientVars, extractVars, sharedVars >>

vars == << cacheVars, cacheGhosts, sessionVars, funVars >>

\* ------------------------------------------------------- the extraction
\* A row of the table: its 'Main Category', 'Category' and 'SubCategory' and
\* one cell per document column.  NaN is the missing cell.
NaN == "<NaN>"
None == "<None>"
DocColumns == {"DocA", "DocB"}

\* df['Category'].str.contains(subcategory, na=False), over the names used.
Contains(name, part) ==
  name = part \/ << name, part >> \in {<< "novel_findings_detail", "novel_findings" >>,
                                       << "novel_findings_note", "novel_findings" >>}

\* The rows a sub-category selects: 'Category' equal to it, else 'Category'
\* containing it, else 'SubCategory' equal to it, else containing it.
SubcategoryRowsOfAnyRule(table, subcategory) ==
  SelectSeq(table, LAMBDA r : \/ Contains(r.cat, subcategory)
                              \/ Contains(r.sub, subcategory))

SubcategoryRows(table, subcategory) ==
  LET exact == SelectSeq(table, LAMBDA r : r.cat = subcategory)
      partial == SelectSeq(table, LAMBDA r : Contains(r.cat, subcategory))
      sub_exact == SelectSeq(table, LAMBDA r : r.sub = subcategory)
      sub_partial == SelectSeq(table, LAMBDA r : Contains(r.sub, subcategory))
  IN IF exact # << >> THEN exact
     ELSE IF partial # << >> THEN partial
     ELSE IF sub_exact # << >> THEN sub_exact
     ELSE sub_partial

\* subcategory_rows[doc_col].dropna().tolist()
DropNa(rows, doc_col) ==
  LET cells == [i \in DOMAIN rows |-> rows[i].cells[doc_col]]
  IN SelectSeq(cells, LAMBDA v : v # NaN)

\* str(item).strip() != ""
NotBlank(item) == item \notin {"", " "}

\* subcategory_data and any(str(item).strip() != "" for item in subcategory_data)
HasData(subcategory_data) ==
  /\ subcategory_data # << >>
  /\ \E i \in DOMAIN subcategory_data : NotBlank(subcategory_data[i])

\* category_insights of one main category: the sub-categories with data.
CategoryInsights(table, doc_col, subcategories) ==
  LET kept == {i \in DOMAIN subcategories :
                 LET rows == SubcategoryRows(table, subcategories[i])
                 IN rows # << >> /\ HasData(DropNa(rows, doc_col))}
  IN [subcategory \in {subcategories[i] : i \in kept} |->
        DropNa(SubcategoryRows(table, subcategory), doc_col)]

\* doc_insights: the main categories with a sub-category that has data.
DocInsightsKeepingEmpty(table, doc_col, categories_to_extract) ==
  [main_category \in {categories_to_extract[i].name :
                        i \in DOMAIN categories_to_extract} |->
     LET i == CHOOSE j \in DOMAIN categories_to_extract :
                categories_to_extract[j].name = main_category
     IN CategoryInsights(table, doc_col, categories_to_extract[i].subcategories)]

DocInsights(table, doc_col, categories_to_extract) ==
  LET kept == {i \in DOMAIN categories_to_extract :
                 DOMAIN CategoryInsights(table, doc_col,
                                         categories_to_extract[i].subcategories) # {}}
  IN [main_category \in {categories_to_extract[i].name : i \in kept} |->
        LET i == CHOOSE j \in kept : categories_to_extract[j].name = main_category
        IN CategoryInsights(table, doc_col, categories_to_extract[i].subcategories)]

\* The title of a document: the first row with 'Main Category' meta_data and
\* 'Category' title, else the first row with 'Category' title.
TitleOf(table, doc_col) ==
  LET meta == SelectSeq(table, LAMBDA r : r.main = "meta_data" /\ r.cat = "title")
      any == SelectSeq(table, LAMBDA r : r.cat = "title")
  IN IF meta # << >> THEN meta[1].cells[doc_col]
     ELSE IF any # << >> THEN any[1].cells[doc_col]
     ELSE None

\* title if title and not pd.isna(title) else doc_col
DocIdentifierIgnoringTitle(table, doc_col) == doc_col

DocIdentifier(table, doc_col) ==
  IF TitleOf(table, doc_col) \notin {None, NaN, ""}
  THEN TitleOf(table, doc_col) ELSE doc_col

\* The loop over matching_docs: insights[doc_identifier] = doc_insights for
\* the documents whose doc_insights is not empty.
RECURSIVE ExtractDocsKeepingFirst(_, _, _, _)
ExtractDocsKeepingFirst(table, docs, categories_to_extract, insights) ==
  IF docs = << >> THEN insights
  ELSE LET doc_insights == DocInsights(table, Head(docs), categories_to_extract)
       IN ExtractDocsKeepingFirst(table, Tail(docs), categories_to_extract,
                      IF DOMAIN doc_insights # {}
                      THEN insights
                             @@ (DocIdentifier(table, Head(docs)) :> doc_insights)
                      ELSE insights)

RECURSIVE ExtractDocs(_, _, _, _)
ExtractDocs(table, docs, categories_to_extract, insights) ==
  IF docs = << >> THEN insights
  ELSE LET doc_insights == DocInsights(table, Head(docs), categories_to_extract)
       IN ExtractDocs(table, Tail(docs), categories_to_extract,
                      IF DOMAIN doc_insights # {}
                      THEN (DocIdentifier(table, Head(docs)) :> doc_insights)
                             @@ insights
                      ELSE insights)

\* extract_research_insights_from_docs: the bundle returned and the table as
\* the call leaves it (df[...] and dropna() build new objects).
ExtractConsuming(table, docs, categories_to_extract) ==
  [insights |-> ExtractDocs(table, docs, categories_to_extract, << >>),
   df |-> SelectSeq(table, LAMBDA r : r.cat = "title")]

extract_research_insights_from_docs(table, docs, categories_to_extract) ==
  [insights |-> ExtractDocs(table, docs, categories_to_extract, << >>),
   df |-> table]

\* ---------------------------------------------------- the response parsing
\* A text is a sequence of characters.  Glyph stands for the bullet character
\* U+2022; a word stands for one character that is neither the glyph, nor a
\* blank, nor a line break.
Glyph == "*"
Blank == " "
LineBreak == "\n"
Colon == ":"

\* insights_text.split('\n')
RECURSIVE SplitLines(_)
SplitLines(text) ==
  IF \A i \in 1 .. Len(text) : text[i] # LineBreak THEN << text >>
  ELSE LET i == CHOOSE j \in 1 .. Len(text) :
                  text[j] = LineBreak /\ \A k \in 1 .. j - 1 : text[k] # LineBreak
       IN << SubSeq(text, 1, i - 1) >> \o SplitLines(SubSeq(text, i + 1, Len(text)))

\* line.strip()
RECURSIVE Strip(_)
Strip(line) ==
  IF line = << >> THEN line
  ELSE IF Head(line) = Blank THEN Strip(Tail(line))
  ELSE IF line[Len(line)] = Blank THEN Strip(SubSeq(line, 1, Len(line) - 1))
  ELSE line

\* line.startswith(glyph)
StartsWithGlyph(line) == line # << >> /\ Head(line) = Glyph

\* line.replace(' * ', ': '): the occurrences from left to right, not
\* overlapping.
RECURSIVE ReplaceNested(_)
ReplaceNested(line) ==
  IF Len(line) < 3 THEN line
  ELSE IF SubSeq(line, 1, 3) = << Blank, Glyph, Blank >>
  THEN << Colon, Blank >> \o ReplaceNested(SubSeq(line, 4, Len(line)))
  ELSE << Head(line) >> \o ReplaceNested(Tail(line))

\* line.replace(glyph, '')
RemoveGlyphs(line) == SelectSeq(line, LAMBDA ch : ch # Glyph)

\* bullet_points[-1] += ' ' + clean_line
ContinuationDropped(bullets, line) == bullets

Continuation(bullets, line) ==
  [bullets EXCEPT ![Len(bullets)] = @ \o << Blank >> \o RemoveGlyphs(line)]

\* The loop over the lines: a stripped line that starts with the glyph opens
\* a bullet, any other non-empty line continues the latest bullet, if any.
RECURSIVE BulletLoopKeepingPreamble(_, _)
BulletLoopKeepingPreamble(lines, bullets) ==
  IF lines = << >> THEN bullets
  ELSE LET line == Strip(Head(lines)) IN
       BulletLoopKeepingPreamble(Tail(lines),
                  IF StartsWithGlyph(line) THEN Append(bullets, ReplaceNested(line))
                  ELSE IF line # << >> /\ bullets # << >>
                  THEN Continuation(bullets, line)
                  ELSE IF line # << >> THEN Append(bullets, line)
                  ELSE bullets)

RECURSIVE BulletLoop(_, _)
BulletLoop(lines, bullets) ==
  IF lines = << >> THEN bullets
  ELSE LET line == Strip(Head(lines)) IN
       BulletLoop(Tail(lines),
                  IF StartsWithGlyph(line) THEN Append(bullets, ReplaceNested(line))
                  ELSE IF line # << >> /\ bullets # << >>
                  THEN Continuation(bullets, line)
                  ELSE bullets)

\* [line.strip().replace(glyph, '') for line in lines if line.strip()]
RECURSIVE ByLines(_)
ByLinesNothing(lines) == << >>

ByLines(lines) ==
  IF lines = << >> THEN << >>
  ELSE IF Strip(Head(lines)) = << >> THEN ByLines(Tail(lines))
  ELSE << RemoveGlyphs(Strip(Head(lines))) >> \o ByLines(Tail(lines))

\* The bullet points of a response.
ParseBullets(text) ==
  LET found == BulletLoop(SplitLines(text), << >>)
  IN IF found = << >> THEN ByLines(SplitLines(text)) ELSE found

\* The part of the state the client and the cache work on, threaded through
\* the calls of one handler.  gaps: for each completion request of the
\* handler, the ticks since the one before it returned (-1: there was none);
\* ret: the value returned by the latest call.
Ctx(c, n, f, api, llm) ==
  [cache |-> c, gen_calls |-> n, failures |-> f, last_api_call |-> api,
   since_llm |-> llm, gaps |-> << >>, ret |-> Absent, hit |-> FALSE,
   network |-> FALSE, requests |-> 0, evicted |-> {}]

Later(t, d) == IF t < 0 THEN t ELSE Min(TimeCap, t + d)

\* d ticks go by.
Elapse(c, d) ==
  [c EXCEPT !.last_api_call = Later(@, d), !.since_llm = Later(@, d)]

\* generate_insights_with_gpt4o: an empty bundle returns at once.  Otherwise
\* the client and the prompt are built and one completion request is made,
\* which lasts dur ticks; the call returns the parsed bullets with the usage
\* counters of the request, or, when anything raised, one error bullet with
\* the zero usage record.  requests counts the completion requests of the
\* call.
GenerateRetrying(c, key, outcome, dur) ==
  [c EXCEPT !.gen_calls = @ + 1, !.network = TRUE, !.requests = 2,
            !.failures = @ + 1,
            !.ret = [insights |-> ErrorInsights(key, c.gen_calls + 1, outcome),
                     token_usage |-> ZeroUsage]]

GenerateCallingAlways(c, key, outcome, dur) ==
  [c EXCEPT !.gen_calls = @ + 1, !.network = TRUE, !.requests = 1,
            !.gaps = Append(@, c.since_llm),
            !.ret = [insights |-> NoInsightsFound(key.topic_name),
                     token_usage |-> ZeroUsage]]

generate_insights_with_gpt4o(c, key, outcome, dur) ==
  LET n == c.gen_calls + 1 IN
  IF key.insights_data_str = {}
  THEN [c EXCEPT !.gen_calls = n, !.network = FALSE, !.requests = 0,
                 !.ret = [insights |-> NoInsightsFound(key.topic_name),
                          token_usage |-> ZeroUsage]]
  ELSE IF outcome = "no_request"
  THEN [c EXCEPT !.gen_calls = n, !.network = FALSE, !.requests = 0,
                 !.failures = @ + 1,
                 !.ret = [insights |-> ErrorInsights(key, n, outcome),
                          token_usage |-> ZeroUsage]]
  ELSE LET asked == [c EXCEPT !.gaps = Append(@, c.since_llm)]
           back == [Elapse(asked, dur) EXCEPT !.since_llm = 0]
       IN IF outcome = "ok"
          THEN [back EXCEPT !.gen_calls = n, !.network = TRUE, !.requests = 1,
                            !.ret = [insights |-> [kind |-> "bullets", key |-> key,
                                                   call |-> n],
                                     token_usage |-> [call |-> n]]]
          ELSE [back EXCEPT !.gen_calls = n, !.network = TRUE, !.requests = 1,
                            !.failures = @ + 1,
                            !.ret = [insights |-> ErrorInsights(key, n, outcome),
                                     token_usage |-> ZeroUsage]]

\* Index of key in the cache, 0 when absent.
CacheIndexIgnoringCredential(c, key) ==
  LET hits == {i \in 1 .. Len(c) :
                 [c[i].key EXCEPT !.api_key = ""] = [key EXCEPT !.api_key = ""]}
  IN IF hits = {} THEN 0 ELSE CHOOSE i \in hits : TRUE

CacheNeverFound(c, key) == 0

CacheIndex(c, key) ==
  LET hits == {i \in 1 .. Len(c) : c[i].key = key}
  IN IF hits = {} THEN 0 ELSE CHOOSE i \in hits : TRUE

RemoveAt(s, i) == SubSeq(s, 1, i - 1) \o SubSeq(s, i + 1, Len(s))

\* A hit makes the entry the most recently used one.
TouchNothing(c, i) == c

Touch(c, i) == Append(RemoveAt(c, i), c[i])

\* A miss stores the new entry; a full cache first drops its oldest entry.
InsertEvictingNewest(c, entry) ==
  IF Len(c) >= CacheMaxSize THEN Append(SubSeq(c, 1, Len(c) - 1), entry)
  ELSE Append(c, entry)

Insert(c, entry) ==
  IF Len(c) >= CacheMaxSize THEN Append(Tail(c), entry) ELSE Append(c, entry)

\* @lru_cache(maxsize=32) around generate_insights_with_gpt4o.
KeysOf(c) == {c[j].key : j \in 1 .. Len(c)}

CachedExceptErrors(c, key, outcome, dur) ==
  LET i == CacheIndex(c.cache, key) IN
  IF i # 0
  THEN [c EXCEPT !.cache = Touch(@, i), !.ret = c.cache[i].val, !.hit = TRUE,
                 !.network = FALSE, !.requests = 0, !.evicted = {}]
  ELSE LET g == generate_insights_with_gpt4o(c, key, outcome, dur)
           kept == IF g.ret.insights.kind = "error" THEN c.cache
                   ELSE Insert(c.cache, [key |-> key, val |-> g.ret])
       IN [g EXCEPT !.cache = kept, !.hit = FALSE,
                    !.evicted = KeysOf(c.cache) \ KeysOf(kept)]

cached_generate_insights(c, key, outcome, dur) ==
  LET i == CacheIndex(c.cache, key) IN
  IF i # 0
  THEN [c EXCEPT !.cache = Touch(@, i), !.ret = c.cache[i].val, !.hit = TRUE,
                 !.network = FALSE, !.requests = 0, !.evicted = {}]
  ELSE LET g == generate_insights_with_gpt4o(c, key, outcome, dur)
           kept == Insert(c.cache, [key |-> key, val |-> g.ret])
       IN [g EXCEPT !.cache = kept, !.hit = FALSE,
                    !.evicted = KeysOf(c.cache) \ KeysOf(kept)]

\* ------------------------------------------------------ the cache on its own
DataList == << {"D1"}, {}, {"D1", "D2"} >>

CredentialList == << "k1", "k2" >>

TopicList == << "Overview", "Oral Health", "Respiratory Health" >>

PromptList == [i \in 1 .. NumTabs |-> FocusPromptOf(PanelTopic[i])]

\* The i-th key presented to the cache: neighbours differ in one component.
KeyAt(i) ==
  Key(DataList[((i - 1) % 3) + 1],
      CredentialList[(((i - 1) \div 3) % 2) + 1],
      TopicList[(((i - 1) \div 6) % 3) + 1],
      PromptList[(((i - 1) \div 18) % NumTabs) + 1])

\* The requests that may fail when the cache is driven on its own: those for
\* the first key.
OutcomesFor(key) == IF key = KeyAt(1) THEN {"ok", "error"} ELSE {"ok"}

\* One call of cached_generate_insights from outside the pipeline.
CacheCall(key, outcome) ==
  \E r \in {cached_generate_insights(
              Ctx(cache, gen_calls, failures, last_api_call, since_llm),
              key, outcome, 0)} :
    /\ cache' = r.cache
    /\ gen_calls' = r.gen_calls
    /\ failures' = r.failures
    /\ since_llm' = r.since_llm
    /\ call_log' = Append(call_log,
                          [key |-> key, outcome |-> outcome, hit |-> r.hit,
                           network |-> r.network, requests |-> r.requests,
                           evicted |-> r.evicted, ret |-> r.ret,
                           gen |-> r.gen_calls])
    /\ UNCHANGED << last_api_call, sessionVars, funVars >>

CallFresh ==
  /\ fresh < MaxFresh
  /\ fresh' = fresh + 1
  /\ recalls' = recalls
  /\ \E outcome \in OutcomesFor(KeyAt(fresh + 1)) :
       CacheCall(KeyAt(fresh + 1), outcome)

\* A key presented before: the least and the most recently used entry of the
\* cache, and the first key ever presented.
CallAgain ==
  /\ fresh > 0
  /\ recalls < MaxRecalls
  /\ fresh' = fresh
  /\ recalls' = recalls + 1
  /\ \E key \in {Head(cache).key, cache[Len(cache)].key, KeyAt(1)} :
       \E outcome \in OutcomesFor(key) : CacheCall(key, outcome)

SessionInit ==
  /\ openai_api_key = ""
  /\ matching_docs = Docs
  /\ insights_in_progress = FALSE
  /\ current_processing_tab = -1
  /\ current_tab_index = -1
  /\ completed_tabs = {}
  /\ progress_status = [i \in Tabs |-> "not_started"]
  /\ store = [k \in StoreKeys |-> Absent]
  /\ triggers = 0
  /\ disturbances = 0
  /\ last_run = [kind |-> "none", processed |-> << >>, written |-> {},
                 trace |-> << >>,
                 throttle_slept |-> 0, rerun_slept |-> 0, raised |-> FALSE,
                 rerun |-> FALSE, gaps |-> << >>, docs |-> Docs, api_key |-> "",
                 throttling |-> TRUE, timestamp_known |-> FALSE]
  /\ run_log = [started |-> FALSE, processed |-> << >>, cycles |-> 0,
                raised |-> FALSE]

CacheInitState ==
  /\ cache = << >>
  /\ gen_calls = 0
  /\ failures = 0
  /\ last_api_call = -1
  /\ since_llm = -1
  /\ call_log = << >>
  /\ fresh = 0
  /\ recalls = 0

\* No response is parsed on its own.
ParseIdle ==
  /\ insights_text = << >>
  /\ bullet_points = << >>
  /\ parse_done = FALSE

\* The client is not called on its own.
ClientIdle ==
  /\ client_in = Absent
  /\ client_out = Absent

\* Nothing is extracted on its own.
ExtractIdle ==
  /\ df = << >>
  /\ extract_in = Absent
  /\ extract_out = << >>

\* No session is inside a call of its own.
SharedIdle == callers = << >>

FunIdle == ParseIdle /\ ClientIdle /\ ExtractIdle /\ SharedIdle

CacheInit == CacheInitState /\ SessionInit /\ FunIdle

CacheNext == CallFresh \/ CallAgain

CacheSpec == CacheInit /\ [][CacheNext]_vars

\* ------------------------------------------------- the parsing on its own
\* The responses parsed: every text of at most MaxTextLen characters over
\* the glyph, the blank, the line break and one word, and two longer texts.
ParseAlphabet == {Glyph, Blank, LineBreak, "A"}

RECURSIVE TextsOfLen(_)
TextsOfLen(n) ==
  IF n = 0 THEN {<< >>}
  ELSE {Append(t, ch) : t \in TextsOfLen(n - 1), ch \in ParseAlphabet}

BulletedText ==
  << Glyph, Blank, "A", LineBreak, Glyph, Blank, "B", LineBreak,
     "continuation", LineBreak, Glyph, Blank, "C" >>

PlainText == << "first", LineBreak, "second" >>

PreambleText ==
  << "Here", Blank, "are", Blank, "the", Blank, "insights", Colon, LineBreak,
     LineBreak, Glyph, Blank, "A" >>

Texts ==
  UNION {TextsOfLen(n) : n \in 0 .. MaxTextLen} \cup {BulletedText, PlainText, PreambleText}

ParseInit ==
  /\ CacheInitState /\ SessionInit /\ ClientIdle /\ ExtractIdle /\ SharedIdle
  /\ insights_text \in Texts
  /\ bullet_points = << >>
  /\ parse_done = FALSE

Parse ==
  /\ ~parse_done
  /\ parse_done' = TRUE
  /\ bullet_points' = ParseBullets(insights_text)
  /\ UNCHANGED << insights_text, cacheVars, cacheGhosts, sessionVars, clientVars,
                  extractVars, sharedVars >>

ParseNext == Parse

ParseSpec == ParseInit /\ [][ParseNext]_vars

\* -------------------------------------------------- the client on its own
\* The calls of generate_insights_with_gpt4o from outside the pipeline: an
\* empty bundle or not, a credential or none, every topic, every outcome.
ClientKeys ==
  {Key(data, api_key, topic_name, FocusPromptOf(topic_name)) :
     data \in {{}, {"D1"}, Docs}, api_key \in {"", "k1"}, topic_name \in TopicNames}

ClientInit ==
  /\ CacheInitState /\ SessionInit /\ ParseIdle /\ ExtractIdle /\ SharedIdle
  /\ client_in \in [key : ClientKeys, outcome : Outcomes]
  /\ client_out = Absent

\* One call; returned tells that the call came back with a value instead of
\* an exception.
Generate ==
  /\ client_out = Absent
  /\ \E r \in {generate_insights_with_gpt4o(
                 Ctx(cache, gen_calls, failures, last_api_call, since_llm),
                 client_in.key, client_in.outcome, 0)} :
       /\ client_out' = [returned |-> r.ret # Absent, ret |-> r.ret,
                         requests |-> r.requests, network |-> r.network]
       /\ gen_calls' = r.gen_calls
       /\ failures' = r.failures
       /\ since_llm' = r.since_llm
  /\ UNCHANGED << client_in, cache, last_api_call, cacheGhosts, sessionVars,
                  parseVars, extractVars, sharedVars >>

ClientNext == Generate

ClientSpec == ClientInit /\ [][ClientNext]_vars

\* ---------------------------------------------- the extraction on its own
\* The tables extracted from: two document columns and five rows, each row
\* there or not, in this order: the title row, two rows of the category
\* main_conclusions, a row whose category contains novel_findings and a row
\* whose sub-category is sample_size.
Row(main, cat, sub, a, b) ==
  [main |-> main, cat |-> cat, sub |-> sub, cells |-> [DocA |-> a, DocB |-> b]]

TitleRows ==
  {<< >>} \cup {<< Row(main, "title", NaN, a, "Study 1") >> :
                 main \in {"meta_data", "x"}, a \in {NaN, "", " ", "Study 1"}}

ConclusionRows ==
  {<< >>} \cup {<< Row("x", "main_conclusions", NaN, a, "w") >> :
                 a \in {NaN, " ", "E-cigs reduce harm"}}

MoreConclusionRows ==
  {<< >>} \cup {<< Row("x", "main_conclusions", NaN, a, NaN) >> :
                 a \in {NaN, "", "v2"}}

FindingRows ==
  {<< >>} \cup {<< Row("x", "novel_findings_detail", NaN, a, NaN) >> :
                 a \in {NaN, "n"}}

SampleRows ==
  {<< >>} \cup {<< Row("x", "details", "sample_size", a, NaN) >> :
                 a \in {NaN, "s"}}

\* The tables in which the rules compete for the sub-category
\* novel_findings: a row of that category, a row whose category contains
\* it, a row of that sub-category and a row whose sub-category contains it,
\* each there or not, with or without a value for DocA.
RuleRow(cat, sub, values) ==
  {<< >>} \cup {<< Row("x", cat, sub, a, NaN) >> : a \in values}

RuleTables ==
  {e \o q \o c \o d :
     e \in RuleRow("novel_findings", NaN, {NaN, "e"}),
     q \in RuleRow("novel_findings_detail", NaN, {NaN, "q"}),
     c \in RuleRow("details", "novel_findings", {NaN, "c"}),
     d \in RuleRow("details", "novel_findings_note", {NaN, "d"})}

Tables ==
  {t \o c \o m \o f \o z :
     t \in TitleRows, c \in ConclusionRows, m \in MoreConclusionRows,
     f \in FindingRows, z \in SampleRows} \cup RuleTables

\* A table with the one document column DocA: a title row and a row of the
\* category main_conclusions.
ScenarioTable ==
  << [main |-> "meta_data", cat |-> "title", sub |-> NaN,
      cells |-> [DocA |-> "Study 1"]],
     [main |-> "x", cat |-> "main_conclusions", sub |-> NaN,
      cells |-> [DocA |-> "E-cigs reduce harm"]] >>

\* The document columns of a table.
Columns(table) == IF table = << >> THEN DocColumns ELSE DOMAIN table[1].cells

\* The schemas: a main category with one sub-category, and two main
\* categories with three sub-categories between them.
KeyFindingsSchema ==
  << [name |-> "Key Findings", subcategories |-> << "main_conclusions" >>] >>

FullSchema ==
  << [name |-> "Key Findings",
      subcategories |-> << "main_conclusions", "novel_findings" >>],
     [name |-> "Methods", subcategories |-> << "sample_size" >>] >>

Schemas == {KeyFindingsSchema, FullSchema}

MatchingDocs ==
  {<< >>, << "DocA" >>, << "DocA", "DocB" >>, << "DocB", "DocA" >>}

ExtractInit ==
  /\ CacheInitState /\ SessionInit /\ ParseIdle /\ ClientIdle /\ SharedIdle
  /\ df \in Tables \cup {ScenarioTable}
  /\ extract_in \in [table : {df},
                      matching_docs : {docs \in MatchingDocs :
                                         \A i \in DOMAIN docs :
                                           docs[i] \in Columns(df)},
                      categories_to_extract : Schemas]
  /\ extract_out = << >>

\* One call of extract_research_insights_from_docs on the table as it is.
ExtractCall ==
  \E r \in {extract_research_insights_from_docs(
               df, extract_in.matching_docs, extract_in.categories_to_extract)} :
    /\ extract_out' = Append(extract_out, r.insights)
    /\ df' = r.df
    /\ UNCHANGED << extract_in, cacheVars, cacheGhosts, sessionVars, parseVars,
                    clientVars, sharedVars >>

Extract == extract_out = << >> /\ ExtractCall

ExtractAgain == Len(extract_out) = 1 /\ ExtractCall

ExtractNext == Extract \/ ExtractAgain

ExtractSpec == ExtractInit /\ [][ExtractNext]_vars

\* ------------------------------------------- the cache under several sessions
\* The sessions of the process: each runs its script in a thread of its own,
\* and all of them call the one module-level cached_generate_insights.
Sessions == {1, 2}

MaxRequests == 2

\* The keys the sessions present: two keys with a bundle that is not empty.
SharedKeys == {KeyAt(1), KeyAt(3)}

\* The lookup of the memoization table by a session that generated the
\* entries `generated` itself.
SharedIndexOwnEntries(c, generated, key) ==
  LET hits == {i \in 1 .. Len(c) :
                 c[i].key = key
                   /\ \E g \in generated : g.call = c[i].val.insights.call}
  IN IF hits = {} THEN 0 ELSE CHOOSE i \in hits : TRUE

SharedIndex(c, generated, key) == CacheIndex(c, key)

\* What a session that has not called yet has to show.
NoCall ==
  [pc |-> "idle", key |-> Absent, ret |-> Absent, hit |-> FALSE, held |-> FALSE,
   requests |-> 0, done |-> 0, generated |-> {}]

SharedInit ==
  /\ CacheInitState /\ SessionInit /\ ParseIdle /\ ClientIdle /\ ExtractIdle
  /\ callers = [s \in Sessions |-> NoCall]

\* A session calls cached_generate_insights and the table holds the key: the
\* entry is returned and becomes the most recently used one.
Hit(s) ==
  /\ callers[s].pc = "idle" /\ callers[s].done < MaxRequests
  /\ \E key \in SharedKeys :
       LET i == SharedIndex(cache, callers[s].generated, key) IN
       /\ i # 0
       /\ cache' = Touch(cache, i)
       /\ callers' = [callers EXCEPT ![s] =
                        [@ EXCEPT !.key = key, !.ret = cache[i].val, !.hit = TRUE,
                                  !.held = \E j \in 1 .. Len(cache) : cache[j].key = key,
                                  !.requests = 0, !.done = @ + 1]]
  /\ UNCHANGED << gen_calls, failures, last_api_call, since_llm, cacheGhosts,
                  sessionVars, parseVars, clientVars, extractVars >>

\* A session calls and the table does not hold the key: the session enters
\* the generation function; the table is not marked in any way.
Miss(s) ==
  /\ callers[s].pc = "idle" /\ callers[s].done < MaxRequests
  /\ \E key \in SharedKeys :
       /\ SharedIndex(cache, callers[s].generated, key) = 0
       /\ callers' = [callers EXCEPT ![s] =
                        [@ EXCEPT !.pc = "calling", !.key = key, !.ret = Absent,
                                  !.hit = FALSE,
                                  !.held = \E j \in 1 .. Len(cache) : cache[j].key = key]]
  /\ UNCHANGED << cacheVars, cacheGhosts, sessionVars, parseVars, clientVars,
                  extractVars >>

\* The generation function returns to a session: the value is stored unless
\* the key was added to the table in the meantime, and is returned.
Return(s) ==
  /\ callers[s].pc = "calling"
  /\ \E g \in {generate_insights_with_gpt4o(
                  Ctx(cache, gen_calls, failures, last_api_call, since_llm),
                  callers[s].key, "ok", 0)} :
       /\ gen_calls' = g.gen_calls
       /\ failures' = g.failures
       /\ since_llm' = g.since_llm
       /\ cache' = IF CacheIndex(cache, callers[s].key) # 0 THEN cache
                   ELSE Insert(cache, [key |-> callers[s].key, val |-> g.ret])
       /\ callers' = [callers EXCEPT ![s] =
                        [@ EXCEPT !.pc = "idle", !.ret = g.ret,
                                  !.requests = g.requests,
                                  !.done = @ + 1,
                                  !.generated = @ \cup {[key |-> callers[s].key,
                                                         call |-> g.gen_calls]}]]
  /\ UNCHANGED << last_api_call, cacheGhosts, sessionVars, parseVars, clientVars,
                  extractVars >>

SharedNext == \E s \in Sessions : Hit(s) \/ Miss(s) \/ Return(s)

SharedSpec == SharedInit /\ [][SharedNext]_vars

\* -------------------------------------------------------------- the session
\* The session state one script run works on, `idle` ticks after the script
\* run before it ended, with what the run did so far:
\* processed (the panels whose processing branch ran), written (the store
\* keys assigned), the ticks slept for the throttle and before st.rerun(),
\* raised (the except branch ran) and rerun (st.rerun() ended the script).
\* trace lists, in the order of the statements, the store keys assigned and
\* the two steps of the controller ("completed": the index joins
\* completed_tabs; "advanced": current_processing_tab changes).
\* json_bound tells whether the local name json of display_insights is
\* bound: "import json" stands in the branch of a bundle that is not empty.
SessionAfter(idle) ==
  [in_progress |-> insights_in_progress, cur |-> current_processing_tab,
   cur_index |-> current_tab_index, completed |-> completed_tabs,
   status |-> progress_status, store |-> store,
   ctx |-> Elapse(Ctx(cache, gen_calls, failures, last_api_call, since_llm), idle),
   processed |-> << >>, written |-> {}, trace |-> << >>,
   throttle_slept |-> 0, rerun_slept |-> 0,
   timestamp_known |-> FALSE, json_bound |-> FALSE, raised |-> FALSE,
   rerun |-> FALSE]

\* The statements of the try block that may raise.
FaultPoints == {"extract", "generate", "respiratory", "cardiovascular", "render"}

\* st.session_state[insights_key] = insights; st.session_state[token_usage_key] = ...
Save(s, insights_key, ret) ==
  [s EXCEPT !.store = [@ EXCEPT ![insights_key] = ret.insights,
                                ![TokenUsageKey(insights_key)] = ret.token_usage],
            !.written = @ \cup {insights_key, TokenUsageKey(insights_key)},
            !.trace = Append(@, insights_key)]

\* time.sleep(d)
Sleep(s, d) == [s EXCEPT !.ctx = Elapse(@, d)]

\* The wait of the throttle: 1.0 - time_since_last_call when throttling is on
\* and a last_api_call younger than 1.0 s is recorded.
ThrottleWaitIgnoringFlag(c, throttling) ==
  IF c.last_api_call >= 0 /\ c.last_api_call < ThrottleInterval
  THEN ThrottleInterval - c.last_api_call ELSE 0

ThrottleWait(c, throttling) ==
  IF throttling /\ c.last_api_call >= 0 /\ c.last_api_call < ThrottleInterval
  THEN ThrottleInterval - c.last_api_call ELSE 0

\* "Setup for next tab" of the try block, with the mark before it.
AdvanceWithoutMark(s, tab_index) ==
  IF tab_index < NumTabs - 1
  THEN [s EXCEPT !.cur = tab_index + 1, !.cur_index = tab_index + 1]
  ELSE [s EXCEPT !.in_progress = FALSE, !.cur = -1, !.cur_index = -1]

MarkWithoutAdvance(s, tab_index) ==
  [s EXCEPT !.completed = @ \cup {tab_index},
            !.status = [@ EXCEPT ![tab_index] = "completed"],
            !.trace = @ \o << "completed", "advanced" >>]

MarkAndAdvance(s, tab_index) ==
  LET marked == [s EXCEPT !.completed = @ \cup {tab_index},
                          !.status = [@ EXCEPT ![tab_index] = "completed"],
                          !.trace = @ \o << "completed", "advanced" >>]
  IN IF tab_index < NumTabs - 1
     THEN [marked EXCEPT !.cur = tab_index + 1, !.cur_index = tab_index + 1]
     ELSE [marked EXCEPT !.in_progress = FALSE, !.cur = -1, !.cur_index = -1]

\* The except branch: the tab is still added to completed_tabs and the run
\* moves on; then time.sleep(0.5) and st.rerun().
RecoverStuck(s, tab_index) ==
  [Sleep(s, RerunSleep) EXCEPT !.raised = TRUE, !.rerun = TRUE,
                               !.rerun_slept = @ + RerunSleep]

RecoverStoringMessage(s, tab_index) ==
  LET marked == [s EXCEPT !.completed = @ \cup {tab_index}, !.raised = TRUE,
                          !.store = [@ EXCEPT ![InsightsKey(TopicNameOf(tab_index))]
                                                = NoInsightsFound(TopicNameOf(tab_index))],
                          !.trace = @ \o << "completed", "advanced" >>]
      moved == IF tab_index < NumTabs - 1
               THEN [marked EXCEPT !.cur = tab_index + 1]
               ELSE [marked EXCEPT !.in_progress = FALSE, !.cur = -1]
  IN [Sleep(moved, RerunSleep) EXCEPT !.rerun = TRUE,
                                      !.rerun_slept = @ + RerunSleep]

RecoverKeepingFlag(s, tab_index) ==
  LET marked == [s EXCEPT !.completed = @ \cup {tab_index}, !.raised = TRUE,
                          !.trace = @ \o << "completed", "advanced" >>]
      moved == IF tab_index < NumTabs - 1
               THEN [marked EXCEPT !.cur = tab_index + 1]
               ELSE [marked EXCEPT !.cur = -1]
  IN [Sleep(moved, RerunSleep) EXCEPT !.rerun = TRUE,
                                      !.rerun_slept = @ + RerunSleep]

Recover(s, tab_index) ==
  LET marked == [s EXCEPT !.completed = @ \cup {tab_index}, !.raised = TRUE,
                          !.trace = @ \o << "completed", "advanced" >>]
      moved == IF tab_index < NumTabs - 1
               THEN [marked EXCEPT !.cur = tab_index + 1]
               ELSE [marked EXCEPT !.in_progress = FALSE, !.cur = -1]
  IN [Sleep(moved, RerunSleep) EXCEPT !.rerun = TRUE,
                                      !.rerun_slept = @ + RerunSleep]

\* The end of the try block: mark, advance, time.sleep(0.5), st.rerun().
FinishWithoutRerun(s, tab_index) ==
  [Sleep(MarkAndAdvance(s, tab_index), RerunSleep)
     EXCEPT !.rerun_slept = @ + RerunSleep]

Finish(s, tab_index) ==
  [Sleep(MarkAndAdvance(s, tab_index), RerunSleep)
     EXCEPT !.rerun = TRUE, !.rerun_slept = @ + RerunSleep]

\* The element of a set of one element; {e(x) : x \in {v}} names v once.
The(S) == CHOOSE x \in S : TRUE

\* A sub-topic of the health panel: extraction under the sub-topic's schema,
\* then the cache with the sub-topic's name and prompt, or the fixed bullet.
SubTopic(s, docs, api_key, topic_name, outcome, dur) ==
  LET bundle == ResearchInsights(docs, topic_name) IN
  IF bundle # {}
  THEN The({Save([s EXCEPT !.ctx = c], InsightsKey(topic_name), c.ret) :
              c \in {cached_generate_insights(
                       s.ctx, Key(bundle, api_key, topic_name, FocusPromptOf(topic_name)),
                       outcome, dur)}})
  ELSE Save(s, InsightsKey(topic_name),
            [insights |-> NoInsightsFound(topic_name), token_usage |-> ZeroUsage])

\* json.dumps of a sub-topic's bundle raises UnboundLocalError when the
\* import statement was not reached.
Unbound(s, docs, topic_name) ==
  ResearchInsights(docs, topic_name) # {} /\ ~s.json_bound

\* The health panel after its own result is stored: the respiratory and the
\* cardiovascular sub-topics, then the rendering and the end of the block.
HealthWithoutSubTopics(s, tab_index, docs, api_key, fault, outs, dur) ==
  IF fault = "render" THEN Recover(s, tab_index) ELSE Finish(s, tab_index)

HealthCardiovascularFirst(s, tab_index, docs, api_key, fault, outs, dur) ==
  The({The({Finish(v, tab_index) :
              v \in {SubTopic(r, docs, api_key, "Respiratory Health", outs[2], dur)}}) :
         r \in {SubTopic(s, docs, api_key, "Cardiovascular Health", outs[3], dur)}})

Health(s, tab_index, docs, api_key, fault, outs, dur) ==
  IF fault = "respiratory" \/ Unbound(s, docs, "Respiratory Health")
  THEN Recover(s, tab_index)
  ELSE The({
    IF fault = "cardiovascular" \/ Unbound(r, docs, "Cardiovascular Health")
    THEN Recover(r, tab_index)
    ELSE The({IF fault = "render" THEN Recover(v, tab_index) ELSE Finish(v, tab_index) :
                v \in {SubTopic(r, docs, api_key, "Cardiovascular Health", outs[3], dur)}}) :
      r \in {SubTopic(s, docs, api_key, "Respiratory Health", outs[2], dur)}})

\* The bundle is empty: the fixed bullet and a zero usage record.
SaveNoInsights(s, topic_name) ==
  Save(s, InsightsKey(topic_name),
       [insights |-> NoInsightsFound(topic_name), token_usage |-> ZeroUsage])

\* The bundle is not empty: the throttle, the cache, last_api_call, the store.
SaveGenerated(s, api_key, throttling, topic_name, research_insights, outcome, dur) ==
  The({The({Save([waited EXCEPT !.ctx = [called EXCEPT !.last_api_call = 0],
                                !.json_bound = TRUE],
                 InsightsKey(topic_name), called.ret) :
              called \in {cached_generate_insights(
                            waited.ctx,
                            Key(research_insights, api_key, topic_name,
                                FocusPromptOf(topic_name)),
                            outcome, dur)}}) :
         waited \in {[Sleep(s, ThrottleWait(s.ctx, throttling))
                        EXCEPT !.throttle_slept = @ + ThrottleWait(s.ctx, throttling)]}})

\* What follows the two assignments to the store: the health branch, or the
\* rendering and the end of the block.
AfterSave(saved, tab_index, topic_name, docs, api_key, fault, outs, dur) ==
  IF tab_index = HealthTab /\ ContainsOralHealth(topic_name)
  THEN The({Health(oral, tab_index, docs, api_key, fault, outs, dur) :
              oral \in {Save(saved, "generated_oral_health_insights",
                             [insights |-> saved.store[InsightsKey(topic_name)],
                              token_usage |->
                                saved.store[TokenUsageKey(InsightsKey(topic_name))]])}})
  ELSE IF fault = "render" THEN Recover(saved, tab_index)
  ELSE Finish(saved, tab_index)

\* The processing branch of display_insights (is_current_tab).
ProcessCurrent(s, tab_index, docs, api_key, throttling, fault, outs, dur) ==
  LET topic_name == TopicNameOf(tab_index)
      research_insights == ResearchInsights(docs, topic_name)
  IN The({
    IF fault = "extract" THEN Recover(begun, tab_index)
    ELSE IF fault = "generate" /\ research_insights # {}
    THEN Recover([Sleep(begun, ThrottleWait(begun.ctx, throttling))
                    EXCEPT !.throttle_slept = @ + ThrottleWait(begun.ctx, throttling)],
                 tab_index)
    ELSE The({AfterSave(saved, tab_index, topic_name, docs, api_key, fault, outs, dur) :
                saved \in {IF research_insights = {}
                           THEN SaveNoInsights(begun, topic_name)
                           ELSE SaveGenerated(begun, api_key, throttling, topic_name,
                                              research_insights, outs[1], dur)}}) :
      begun \in {[s EXCEPT !.processed = Append(@, tab_index),
                          !.timestamp_known = s.ctx.last_api_call >= 0]}})

\* display_insights for one panel: nothing happens without matching
\* documents; the current tab of a run in progress is processed; any other
\* panel only shows what the store holds.
IsCurrentTabIgnoringIndex(s, tab_index) == s.in_progress

IsCurrentTabAnyIncomplete(s, tab_index) ==
  s.in_progress /\ tab_index \notin s.completed

IsCurrentTabIgnoringCompleted(s, tab_index) ==
  s.in_progress /\ tab_index = s.cur

IsCurrentTabWithoutFlag(s, tab_index) ==
  tab_index = (IF s.cur < 0 THEN 0 ELSE s.cur) /\ tab_index \notin s.completed

IsCurrentTab(s, tab_index) ==
  s.in_progress /\ tab_index = s.cur /\ tab_index \notin s.completed

DisplayInsightsUnguarded(s, tab_index, docs, api_key, throttling, fault, outs, dur) ==
  IF IsCurrentTab(s, tab_index)
  THEN ProcessCurrent(s, tab_index, docs, api_key, throttling, fault, outs, dur)
  ELSE s

display_insights(s, tab_index, docs, api_key, throttling, fault, outs, dur) ==
  IF docs = {} THEN s
  ELSE IF IsCurrentTab(s, tab_index)
  THEN ProcessCurrent(s, tab_index, docs, api_key, throttling, fault, outs, dur)
  ELSE s

\* What a panel that is not processed shows: the warning without matching
\* documents, the bullets the store holds under its key, or the empty state
\* with its message.
Shown(st, docs, api_key, tab_index) ==
  IF docs = {} THEN [kind |-> "warning"]
  ELSE IF st[InsightsKey(TopicNameOf(tab_index))] # Absent
  THEN [kind |-> "stored", insights |-> st[InsightsKey(TopicNameOf(tab_index))]]
  ELSE [kind |-> "placeholder",
        message |-> IF api_key = "" THEN "Please enter your OpenAI API key"
                    ELSE "Click the 'Generate Insights' button"]

\* One script run renders the panels in order; st.rerun() ends it.
RECURSIVE RenderPanels(_, _, _, _, _, _, _, _)
RenderPanels(s, tab_index, docs, api_key, throttling, fault, outs, dur) ==
  IF tab_index >= NumTabs \/ s.rerun THEN s
  ELSE CHOOSE r \in
         {RenderPanels(t, tab_index + 1, docs, api_key, throttling, fault, outs, dur) :
            t \in {display_insights(s, tab_index, docs, api_key, throttling,
                                    fault, outs, dur)}} : TRUE

\* ------------------------------------------------------------- script runs
\* The ends of the filter sliders and multiselects, as the documents selected.
DocSets == {{}, {"D2"}, Docs}

Credentials == {"", "k1"}

CycleCap == NumTabs + 1

\* The choices of one script run that matter: a fault, the outcomes of the
\* requests and their length matter only when a panel is processed, and the
\* outcomes of the second and third request only in the health panel.
WillProcess(docs) ==
  docs # {} /\ IsCurrentTab(SessionAfter(0), current_processing_tab)

\* Whether the run will send a request for the topic: its bundle is not
\* empty and the cache does not hold its key.
WillRequest(docs, api_key, topic_name) ==
  /\ ResearchInsights(docs, topic_name) # {}
  /\ CacheIndex(cache, Key(ResearchInsights(docs, topic_name), api_key,
                           topic_name, FocusPromptOf(topic_name))) = 0

\* Whether the behaviour may take one more fault or failed request after
\* `edits` edits.
MayDisturb(edits) ==
  /\ disturbances + edits < MaxDisturbances
  /\ triggers + disturbances + edits < MaxEvents

FaultChoices(docs, edits) ==
  IF WillProcess(docs) /\ MayDisturb(edits)
  THEN {"none"} \cup (IF current_processing_tab = HealthTab THEN FaultPoints
                      ELSE FaultPoints \ {"respiratory", "cardiovascular"})
  ELSE {"none"}

\* The requests a fault leaves unsent.
Unsent(fault) ==
  CASE fault = "extract" -> {TopicNameOf(current_processing_tab)} \cup SubTopics
    [] fault = "generate" -> {TopicNameOf(current_processing_tab)} \cup SubTopics
    [] fault = "respiratory" -> SubTopics
    [] fault = "cardiovascular" -> {"Cardiovascular Health"}
    [] OTHER -> {}

\* The outcomes of a request of the run: answered or failed.  The failure
\* before the request differs from these by its message only; it is drawn
\* where the client is called on its own.
OutcomesOf(docs, api_key, topic_name, edits, fault) ==
  IF /\ MayDisturb(edits)
     /\ fault = "none"
     /\ WillRequest(docs, api_key, topic_name)
  THEN {"ok", "error"} ELSE {"ok"}

OutcomeChoices(docs, api_key, edits, fault) ==
  IF ~WillProcess(docs) THEN {<< "ok", "ok", "ok" >>}
  ELSE IF current_processing_tab = HealthTab
  THEN {<< a, b, c >> :
          a \in OutcomesOf(docs, api_key, TopicNameOf(HealthTab), edits, fault),
          b \in OutcomesOf(docs, api_key, "Respiratory Health", edits, fault),
          c \in OutcomesOf(docs, api_key, "Cardiovascular Health", edits, fault)}
  ELSE {<< a, "ok", "ok" >> :
          a \in OutcomesOf(docs, api_key,
                           TopicNameOf(current_processing_tab), edits,
                           fault)}

\* The length of the requests matters when one is sent.
DurationChoices(docs, api_key, fault) ==
  IF WillProcess(docs)
     /\ \E t \in ({TopicNameOf(current_processing_tab)}
                   \cup (IF current_processing_tab = HealthTab
                         THEN SubTopics ELSE {})) \ Unsent(fault) :
          WillRequest(docs, api_key, t)
  THEN 0 .. MaxCallTicks ELSE {0}

\* Time is read only when a panel is processed: the ticks since the script
\* run before are drawn there.  A refresh the script forced follows at once.
IdleChoices(docs) ==
  IF /\ WillProcess(docs)
     /\ ~last_run.rerun
     /\ last_api_call >= 0 \/ since_llm >= 0
  THEN 0 .. TimeCap ELSE {0}

\* enable_throttling is read when the bundle of the panel is not empty and a
\* last_api_call is recorded.
ThrottlingChoices(docs, fault) ==
  IF /\ WillProcess(docs)
     /\ fault # "extract"
     /\ last_api_call >= 0
     /\ ResearchInsights(docs, TopicNameOf(current_processing_tab)) # {}
  THEN BOOLEAN ELSE {TRUE}

\* What a script run leaves behind.
Commit(s, kind, docs, api_key, throttling) ==
  /\ insights_in_progress' = s.in_progress
  /\ current_processing_tab' = s.cur
  /\ current_tab_index' = s.cur_index
  /\ completed_tabs' = s.completed
  /\ progress_status' = s.status
  /\ store' = s.store
  /\ cache' = s.ctx.cache
  /\ gen_calls' = s.ctx.gen_calls
  /\ failures' = s.ctx.failures
  /\ last_api_call' = s.ctx.last_api_call
  /\ since_llm' = s.ctx.since_llm
  /\ last_run' = [kind |-> kind, processed |-> s.processed, written |-> s.written,
                  trace |-> s.trace,
                  throttle_slept |-> s.throttle_slept, rerun_slept |-> s.rerun_slept,
                  raised |-> s.raised, rerun |-> s.rerun, gaps |-> s.ctx.gaps,
                  docs |-> docs, api_key |-> api_key, throttling |-> throttling,
                  timestamp_known |-> s.timestamp_known]
  /\ run_log' = [started |-> run_log.started,
                 processed |-> run_log.processed \o s.processed,
                 cycles |-> IF run_log.started
                            THEN Min(CycleCap, run_log.cycles + 1) ELSE 0,
                 raised |-> run_log.raised \/ s.raised]
  /\ UNCHANGED << cacheGhosts, funVars >>

\* The script from top to bottom with the given filter result and credential.
ScriptRun(kind, docs, api_key, edits) ==
  \E fault \in FaultChoices(docs, edits),
     idle \in IdleChoices(docs) :
   \E outs \in OutcomeChoices(docs, api_key, edits, fault),
      dur \in DurationChoices(docs, api_key, fault),
      enable_throttling \in ThrottlingChoices(docs, fault) :
    \E s \in {RenderPanels(SessionAfter(idle), 0, docs, api_key, enable_throttling,
                           fault, outs, dur)} :
      /\ Commit(s, kind, docs, api_key, enable_throttling)
      /\ disturbances + edits + (IF fault # "none" THEN 1 ELSE 0)
           + (s.ctx.failures - failures)
           <= Min(MaxDisturbances, MaxEvents - triggers)
      /\ disturbances' = disturbances + edits + (IF fault # "none" THEN 1 ELSE 0)
                           + (s.ctx.failures - failures)
      /\ matching_docs' = docs
      /\ openai_api_key' = api_key

\* The reset of a new run: every topic waiting, nothing completed, index 0
\* active, and a refresh is forced before any panel is rendered.  The click
\* comes some ticks after the script run before it.
ResetKeepingCompleted ==
  [in_progress |-> TRUE, cur |-> 0, completed |-> completed_tabs,
   status |-> [i \in Tabs |-> IF i \in completed_tabs THEN "completed"
                              ELSE "waiting"]]

Reset ==
  [in_progress |-> TRUE, cur |-> 0, completed |-> {},
   status |-> [i \in Tabs |-> "waiting"]]

StartRun ==
  /\ \E idle \in (IF last_api_call >= 0 \/ since_llm >= 0
                  THEN 0 .. TimeCap ELSE {0}) :
       /\ last_api_call' = Later(last_api_call, idle)
       /\ since_llm' = Later(since_llm, idle)
  /\ insights_in_progress' = Reset.in_progress
  /\ current_processing_tab' = Reset.cur
  /\ completed_tabs' = Reset.completed
  /\ progress_status' = Reset.status
  /\ last_run' = [kind |-> "trigger", processed |-> << >>, written |-> {},
                  trace |-> << >>,
                  throttle_slept |-> 0, rerun_slept |-> 0, raised |-> FALSE,
                  rerun |-> TRUE, gaps |-> << >>, docs |-> matching_docs,
                  api_key |-> openai_api_key, throttling |-> TRUE,
                  timestamp_known |-> FALSE]
  /\ run_log' = [started |-> TRUE, processed |-> << >>, cycles |-> 0,
                 raised |-> FALSE]
  /\ UNCHANGED << cache, gen_calls, failures, cacheGhosts, funVars, openai_api_key,
                  matching_docs, current_tab_index, store, disturbances >>

\* A click on "Generate Insights": generate_button = st.button(...) and api_key.
\* Without a credential the click is a script run like any other; the clicks
\* that start a run are the ones counted.
TriggerResetting ==
  /\ triggers < MaxTriggers
  /\ triggers + disturbances < MaxEvents
  /\ triggers' = triggers + 1
  /\ StartRun

Trigger ==
  IF openai_api_key # ""
  THEN /\ triggers < MaxTriggers
       /\ triggers + disturbances < MaxEvents
       /\ triggers' = triggers + 1
       /\ StartRun
  ELSE /\ triggers' = triggers
       /\ ScriptRun("click", matching_docs, openai_api_key, 0)

\* The refresh a processed panel forces, or any interaction that changes no
\* input.
Rerun ==
  /\ triggers' = triggers
  /\ ScriptRun("rerun", matching_docs, openai_api_key, 0)

\* The operator changes a filter: the script runs with the new selection.
EditFilter ==
  /\ triggers' = triggers
  /\ \E docs \in DocSets \ {matching_docs} :
       ScriptRun("filter", docs, openai_api_key, 1)

\* The operator types a credential: st.session_state.openai_api_key = api_key.
\* Typing the first credential of the session is not counted as an edit.
EditApiKey ==
  /\ triggers' = triggers
  /\ \E api_key \in Credentials \ {openai_api_key} :
       ScriptRun("credential", matching_docs, api_key,
                 IF openai_api_key = "" /\ triggers = 0 THEN 0 ELSE 1)

Init == CacheInitState /\ SessionInit /\ FunIdle

Next == Trigger \/ Rerun \/ EditFilter \/ EditApiKey

Spec == Init /\ [][Next]_vars

\* Refresh cycles keep occurring: a script run that changes anything is not
\* put off for ever.
FairSpec == Spec /\ WF_vars(Rerun)

\* ------------------------------------------- claims about the controller
\* The terminal condition of a run.
Terminal == ~insights_in_progress /\ completed_tabs = Tabs

AllTabsInOrder == [i \in 1 .. NumTabs |-> i - 1]

\* The cycle that has just ended processed the panel k.
Processed(k) == last_run.processed = << k >>

\* C1 (as stated): after a Trigger and 8 refresh cycles none of which raised,
\* the panels were processed in the order 0,1,...,7, each once, and the run
\* is over: in_progress false, current_processing_tab -1, completed_tabs all.
C1_ControllerOrdering ==
  (run_log.cycles = NumTabs /\ ~run_log.raised)
    => /\ run_log.processed = AllTabsInOrder
       /\ ~insights_in_progress
       /\ current_processing_tab = -1
       /\ completed_tabs = Tabs

\* C2 (as stated): with refresh cycles kept occurring, a run in progress
\* eventually reaches the terminal condition, whatever the filter selects.
C2_RunTerminates == insights_in_progress ~> Terminal

\* C3: a cycle of panel k whose except branch ran has added k to
\* completed_tabs and moved on: to k + 1 when k < 7, and to the end of the
\* run (in_progress false, current_processing_tab -1) when k = 7.
C3_ControllerResilience ==
  \A k \in Tabs :
    (Processed(k) /\ last_run.raised)
      => /\ k \in completed_tabs
         /\ current_processing_tab # k
         /\ k < NumTabs - 1 => current_processing_tab = k + 1
         /\ k = NumTabs - 1 => (~insights_in_progress /\ current_processing_tab = -1)

C3_Witness ==
  /\ Processed(NumTabs - 1)
  /\ last_run.raised
  /\ Terminal

\* C8 (as stated): with throttling enabled, every request of a cycle comes
\* at least the throttle interval after the request before it.
C8_Throttle ==
  last_run.throttling
    => \A i \in 1 .. Len(last_run.gaps) :
         last_run.gaps[i] < 0 \/ last_run.gaps[i] >= ThrottleInterval

\* C9 (as stated): a processing cycle with throttling disabled, or with no
\* last_api_call recorded, sleeps nowhere.
C9_NoSleepAtAll ==
  (last_run.processed # << >> /\ (~last_run.throttling \/ ~last_run.timestamp_known))
    => last_run.throttle_slept + last_run.rerun_slept = 0

\* C9 (amended): a processing cycle with throttling disabled, or with no
\* last_api_call recorded, does not sleep for the throttle; its only sleep is
\* the fixed pause before st.rerun().
C9_NoThrottleSleep ==
  (last_run.processed # << >> /\ (~last_run.throttling \/ ~last_run.timestamp_known))
    => /\ last_run.throttle_slept = 0
       /\ last_run.rerun_slept = RerunSleep

C9_Witness ==
  /\ last_run.processed # << >>
  /\ ~last_run.throttling
  /\ last_run.timestamp_known
  /\ last_run.gaps # << >>

HealthKeys ==
  {"generated_oral_health_insights", "generated_respiratory_health_insights",
   "generated_cardiovascular_health_insights"}

HealthWritten ==
  \A k \in HealthKeys : {k, TokenUsageKey(k)} \subseteq last_run.written

HealthSaves ==
  << InsightsKey(TopicNameOf(HealthTab)), "generated_oral_health_insights",
     "generated_respiratory_health_insights",
     "generated_cardiovascular_health_insights" >>

ControllerSteps == << "completed", "advanced" >>

Lines == [i \in 1 .. Len(SplitLines(insights_text)) |->
            Strip(SplitLines(insights_text)[i])]

GlyphLines == {i \in DOMAIN Lines : StartsWithGlyph(Lines[i])}

\* The k-th line that starts with the glyph; the line after the last one
\* closes the list.
KthGlyphLine(k) ==
  IF k > Cardinality(GlyphLines) THEN Len(Lines) + 1
  ELSE CHOOSE i \in GlyphLines : Cardinality({j \in GlyphLines : j < i}) = k - 1

\* The non-empty lines i .. last, each behind a blank and without glyphs.
RECURSIVE Appended(_, _)
Appended(i, last) ==
  IF i > last THEN << >>
  ELSE (IF Lines[i] = << >> THEN << >> ELSE << Blank >> \o RemoveGlyphs(Lines[i]))
       \o Appended(i + 1, last)

\* C12 (as stated): when a line starts with the glyph, every bullet has its
\* opening glyph stripped, and the text "* A / * B / continuation / * C" parses
\* to the 3 bullets "A", "B continuation" and "C".
C12_BulletsStripped ==
  (parse_done /\ GlyphLines # {})
    => /\ \A k \in DOMAIN bullet_points : ~StartsWithGlyph(bullet_points[k])
       /\ insights_text = BulletedText
            => bullet_points = << << "A" >>, << "B", Blank, "continuation" >>,
                                  << "C" >> >>

\* C12 (amended): when a line starts with the glyph, there is one bullet per
\* such line, in order; the bullet is the line with its opening glyph kept and
\* every " * " inside replaced by ": ", followed by the later non-empty lines
\* up to the next such line, each joined by a blank and without glyphs.  The
\* text "* A / * B / continuation / * C" parses to the 3 bullets "* A",
\* "* B continuation" and "* C".
C12_BulletParsing ==
  (parse_done /\ GlyphLines # {})
    => /\ Len(bullet_points) = Cardinality(GlyphLines)
       /\ \A k \in DOMAIN bullet_points :
            /\ StartsWithGlyph(bullet_points[k])
            /\ bullet_points[k] =
                 ReplaceNested(Lines[KthGlyphLine(k)])
                   \o Appended(KthGlyphLine(k) + 1, KthGlyphLine(k + 1) - 1)
       /\ insights_text = BulletedText
            => bullet_points = << << Glyph, Blank, "A" >>,
                                  << Glyph, Blank, "B", Blank, "continuation" >>,
                                  << Glyph, Blank, "C" >> >>

C12_Witness ==
  /\ parse_done
  /\ insights_text = BulletedText
  /\ Len(bullet_points) = 3

\* C13: when no line starts with the glyph, there is one bullet per
\* non-empty stripped line, in order, which is the line without its glyphs;
\* "first / second" parses to the 2 bullets "first" and "second".
C13_ParsingFallback ==
  (parse_done /\ GlyphLines = {})
    => /\ bullet_points =
            [k \in 1 .. Cardinality({i \in DOMAIN Lines : Lines[i] # << >>}) |->
               RemoveGlyphs(Lines[CHOOSE i \in DOMAIN Lines :
                 /\ Lines[i] # << >>
                 /\ Cardinality({j \in 1 .. i - 1 : Lines[j] # << >>}) = k - 1])]
       /\ \A k \in DOMAIN bullet_points : \A n \in DOMAIN bullet_points[k] :
            bullet_points[k][n] # Glyph
       /\ insights_text = PlainText
            => bullet_points = << << "first" >>, << "second" >> >>

C13_Witness ==
  /\ parse_done
  /\ insights_text = PlainText
  /\ bullet_points = << << "first" >>, << "second" >> >>

\* ------------------------------------------- claims about the client
\* The call of the client on its own raised inside: its bundle is not empty
\* and the outcome is not "ok".
ClientFailed ==
  /\ client_out # Absent
  /\ client_in.key.insights_data_str # {}
  /\ client_in.outcome # "ok"

ErrorReturned ==
  /\ client_out.returned
  /\ client_out.ret.insights.kind = "error"
  /\ client_out.ret.insights.bullets =
       << << "Error generating ", Lower(client_in.key.topic_name), " insights: ",
             MessageOf(client_in.outcome) >> >>
  /\ client_out.ret.token_usage = ZeroUsage

\* C14 (as stated): a call with a non-empty bundle in which anything raises
\* returns one bullet "Error generating <topic> insights: <message>" with the
\* zero usage record, and exactly one request was attempted.
C14_ExactlyOneRequest ==
  ClientFailed => (ErrorReturned /\ client_out.requests = 1)

\* C14 (amended): a call with a non-empty bundle in which anything raises
\* returns one bullet "Error generating <topic> insights: <message>" with the
\* zero usage record; at most one request was attempted: one when the request
\* or the parsing raised, none when the client or the prompt could not be
\* built.
C14_ClientFailure ==
  ClientFailed =>
    /\ ErrorReturned
    /\ client_out.requests <= 1
    /\ client_out.requests = 1 <=> client_in.outcome = "error"

C14_Witness ==
  /\ ClientFailed
  /\ client_in.outcome = "error"
  /\ client_out.requests = 1
  /\ client_out.ret.token_usage = ZeroUsage

\* The bullet and the usage record of an empty bundle.
InformationalPair(topic_name) ==
  [insights |->
     [kind |-> "no_insights", topic |-> topic_name, call |-> 0,
      bullets |-> << << "No ", Lower(topic_name),
                        " insights found in the filtered documents." >> >>],
   token_usage |-> [prompt_tokens |-> 0, completion_tokens |-> 0, total_tokens |-> 0]]

\* The client called with an empty bundle in the current state, whatever the
\* topic, the credential and the state of the network.
DirectCallsShortCircuit ==
  \A topic_name \in TopicNames, api_key \in Credentials, outcome \in Outcomes :
    LET before == Ctx(cache, gen_calls, failures, last_api_call, since_llm)
        after == generate_insights_with_gpt4o(
                   before, Key({}, api_key, topic_name, FocusPromptOf(topic_name)),
                   outcome, MaxCallTicks)
    IN /\ after.ret = InformationalPair(topic_name)
       /\ Len(after.ret.insights.bullets) = 1
       /\ after.requests = 0 /\ ~after.network
       /\ after.gaps = before.gaps
       /\ after.since_llm = before.since_llm
       /\ after.failures = before.failures

\* The cycle that has just ended found an empty extraction for its panel.
EmptyExtraction(k) ==
  Processed(k) /\ ResearchInsights(last_run.docs, TopicNameOf(k)) = {}

\* C15: an empty bundle gives one informational bullet and the zero usage
\* record without a request, both when the client is called (in any state)
\* and when the cycle of a panel finds an empty extraction: the pair is
\* stored under the topic's key and the cycle sends no request for the panel.
C15_EmptyBundleShortCircuit ==
  /\ DirectCallsShortCircuit
  /\ \A k \in Tabs :
       (EmptyExtraction(k) /\ InsightsKey(TopicNameOf(k)) \in last_run.written)
         => /\ store[InsightsKey(TopicNameOf(k))]
                 = InformationalPair(TopicNameOf(k)).insights
            /\ store[TokenUsageKey(InsightsKey(TopicNameOf(k)))]
                 = InformationalPair(TopicNameOf(k)).token_usage
            /\ last_run.throttle_slept = 0
            /\ k # HealthTab => last_run.gaps = << >>

C15_Witness ==
  \E k \in Tabs :
    /\ EmptyExtraction(k)
    /\ InsightsKey(TopicNameOf(k)) \in last_run.written
    /\ store[InsightsKey(TopicNameOf(k))].kind = "no_insights"
    /\ last_run.gaps = << >>
    /\ ~last_run.raised

\* ------------------------------------------------- claims about the cache
\* The latest call of the log; every earlier call was the latest call of an
\* earlier state, so a property of the latest call in every reachable state
\* is a property of every call.
NumCalls == Len(call_log)

LatestCall == call_log[NumCalls]

\* Invocations of the generation function before call i.
GenBefore(i) == IF i = 1 THEN 0 ELSE call_log[i - 1].gen

\* The position of the latest use of key k before call n (0: never used).
LastUse(k, n) ==
  LET used == {i \in 1 .. (n - 1) : call_log[i].key = k}
  IN IF used = {} THEN 0 ELSE CHOOSE i \in used : \A j \in used : j <= i

DistinctKeys == {call_log[i].key : i \in 1 .. NumCalls}

\* C4 (as stated): the generation function is invoked at most once for each
\* distinct key for the life of the cache: a call for a key that was
\* generated before never generates again.
C4_AtMostOncePerKey ==
  NumCalls > 0 =>
    \A i \in 1 .. (NumCalls - 1) :
      (call_log[i].key = LatestCall.key /\ ~call_log[i].hit) => LatestCall.hit

\* C4 (amended): a key is generated again only after its entry was evicted
\* in between; so while no more than CacheMaxSize distinct keys have been
\* presented, every key is generated at most once.
C4_AtMostOncePerResidence ==
  NumCalls > 0 =>
    /\ \A i \in 1 .. (NumCalls - 1) :
         (call_log[i].key = LatestCall.key /\ ~call_log[i].hit /\ ~LatestCall.hit)
           => \E m \in (i + 1) .. (NumCalls - 1) :
                LatestCall.key \in call_log[m].evicted
    /\ Cardinality(DistinctKeys) <= CacheMaxSize => C4_AtMostOncePerKey
    /\ LatestCall.gen = GenBefore(NumCalls) + (IF LatestCall.hit THEN 0 ELSE 1)

\* A key presented again while its entry is still held is served without
\* a second generation.
C4_Witness ==
  /\ NumCalls > 1
  /\ LatestCall.hit
  /\ \E i \in 1 .. (NumCalls - 1) :
       call_log[i].key = LatestCall.key /\ ~call_log[i].hit
  /\ LatestCall.gen = GenBefore(NumCalls)

\* C5: two consecutive calls with identical arguments cause exactly one
\* invocation of the generation function (the first call's, when the key was
\* not held before it; the second call never invokes it) and the second call
\* returns the same (bullets, usage) pair as the first.
C5_CacheHit ==
  (NumCalls > 1 /\ call_log[NumCalls - 1].key = LatestCall.key) =>
    /\ LatestCall.gen = call_log[NumCalls - 1].gen
    /\ LatestCall.ret = call_log[NumCalls - 1].ret
    /\ ~call_log[NumCalls - 1].hit =>
         LatestCall.gen = GenBefore(NumCalls - 1) + 1

C5_Witness ==
  /\ NumCalls > 1
  /\ call_log[NumCalls - 1].key = LatestCall.key
  /\ ~call_log[NumCalls - 1].hit
  /\ call_log[NumCalls - 1].network
  /\ LatestCall.gen = GenBefore(NumCalls - 1) + 1
  /\ LatestCall.ret = call_log[NumCalls - 1].ret

\* Keys a and b agree in every component but the named one.
DiffersOnlyIn(a, b, field) ==
  /\ a # b
  /\ \A f \in {"insights_data_str", "api_key", "topic_name", "custom_focus_prompt"}
          \ {field} : a[f] = b[f]

\* C6: a call whose key differs from every key presented before (be it in one
\* component only) is not served from a stored entry: it invokes the
\* generation function, and what a call returns was generated for exactly its
\* own 4-tuple, credential included.
C6_KeySensitivity ==
  NumCalls > 0 =>
    /\ (\A i \in 1 .. (NumCalls - 1) : call_log[i].key # LatestCall.key)
         => (~LatestCall.hit /\ LatestCall.gen = GenBefore(NumCalls) + 1)
    /\ LatestCall.ret.insights.kind \in {"bullets", "error"}
         => LatestCall.ret.insights.key = LatestCall.key
    /\ LatestCall.ret.insights.kind = "no_insights"
         => /\ LatestCall.ret.insights.topic = LatestCall.key.topic_name
            /\ LatestCall.key.insights_data_str = {}

\* The latest call is generated afresh although, for each of the four
\* components, the cache holds a key that differs from it in that component
\* alone.
C6_Witness ==
  /\ NumCalls > 0
  /\ ~LatestCall.hit
  /\ LatestCall.network
  /\ \A f \in {"insights_data_str", "api_key", "topic_name", "custom_focus_prompt"} :
       \E j \in 1 .. (Len(cache) - 1) : DiffersOnlyIn(cache[j].key, LatestCall.key, f)

\* C7: the cache never holds more than CacheMaxSize entries, and a miss on a
\* full cache evicts exactly the entry whose latest use (a hit counts) is the
\* oldest.
C7_CacheBound ==
  /\ Len(cache) <= CacheMaxSize
  /\ Cardinality(KeysOf(cache)) = Len(cache)
  /\ NumCalls > 0 =>
       /\ LatestCall.evicted # {} =>
            /\ Cardinality(LatestCall.evicted) = 1
            /\ Len(cache) = CacheMaxSize
            /\ ~LatestCall.hit
            /\ \A v \in LatestCall.evicted :
                 \A k \in KeysOf(cache) \ {LatestCall.key} :
                   LastUse(v, NumCalls) < LastUse(k, NumCalls)
       /\ (~LatestCall.hit /\ Cardinality(DistinctKeys) > CacheMaxSize
             /\ LastUse(LatestCall.key, NumCalls) = 0)
            => LatestCall.evicted # {}

\* A miss on a full cache evicts a key other than the first one presented,
\* because the first one was used again by a hit.
C7_Witness ==
  /\ NumCalls > CacheMaxSize
  /\ LatestCall.evicted # {}
  /\ KeyAt(1) \in KeysOf(cache)
  /\ KeyAt(1) # LatestCall.key
  /\ \E i \in 2 .. (NumCalls - 1) : call_log[i].key = KeyAt(1) /\ call_log[i].hit

\* ------------------------------------------------------ the extraction claims
\* The first bundle returned.
Bundle == extract_out[1]

Extracted == extract_out # << >>

\* C16: the bundle holds no document whose mapping is empty and no main
\* category whose mapping is empty.
C16_NoEmptyLeaves ==
  Extracted =>
    \A doc \in DOMAIN Bundle :
      /\ DOMAIN Bundle[doc] # {}
      /\ \A main_category \in DOMAIN Bundle[doc] :
            DOMAIN Bundle[doc][main_category] # {}

\* A call that left a document out, left a main category out, and returned
\* another main category of the same document.
C16_Witness ==
  /\ Extracted
  /\ extract_in.matching_docs = << "DocA", "DocB" >>
  /\ extract_in.categories_to_extract = FullSchema
  /\ DOMAIN Bundle = {"Study 1"}
  /\ DOMAIN Bundle["Study 1"] = {"Methods"}

\* The values of the bundle: every item of every sub-category's list.
BundleValues ==
  UNION {UNION {UNION {{Bundle[doc][main_category][subcategory][i] :
                          i \in DOMAIN Bundle[doc][main_category][subcategory]} :
                       subcategory \in DOMAIN Bundle[doc][main_category]} :
                  main_category \in DOMAIN Bundle[doc]} :
           doc \in DOMAIN Bundle}

\* C17: every value in every list of the bundle is neither empty nor blank.
C17_NonBlankValues ==
  Extracted => \A v \in BundleValues : NotBlank(v) /\ v # NaN

Scenario ==
  /\ Extracted
  /\ extract_in.table = ScenarioTable
  /\ extract_in.matching_docs = << "DocA" >>
  /\ extract_in.categories_to_extract = KeyFindingsSchema

\* C19: in the end-to-end scenario the bundle is the document keyed by its
\* title, with the one main category, the one sub-category and the one value.
C19_EndToEnd ==
  Scenario =>
    Bundle = ("Study 1" :>
               ("Key Findings" :>
                 ("main_conclusions" :> << "E-cigs reduce harm" >>)))

C19_Witness == Scenario /\ DOMAIN Bundle = {"Study 1"}

\* ------------------------------------------------------ the missing credential
\* A step that is a click on "Generate Insights" without a credential,
\* whether it is handled as a click that resets or as one that does not.
ClickWithoutCredential ==
  openai_api_key = "" /\ last_run'.kind \in {"click", "trigger"}

\* A run starts: the reset of the trigger.
RunStarts ==
  \/ ~insights_in_progress /\ insights_in_progress'
  \/ ~run_log.started /\ run_log'.started
  \/ completed_tabs # {} /\ completed_tabs' = {}

ControllerUnchanged ==
  UNCHANGED << progress_status, completed_tabs, current_processing_tab,
               insights_in_progress, store, cache, last_api_call >>

\* C20 as stated: a click without a credential starts no run and leaves the
\* statuses, the completed set, the index, the in-progress flag, the store,
\* the cache and the throttle timestamp as they were.
C20_MissingCredential ==
  [][ClickWithoutCredential => ~RunStarts /\ ControllerUnchanged]_vars

\* C20: a click without a credential starts no run; while no run is in
\* progress it leaves the statuses, the completed set, the index, the
\* in-progress flag, the store, the cache and the throttle timestamp as they
\* were.
C20_MissingCredentialWhenIdle ==
  [][ClickWithoutCredential =>
       /\ ~RunStarts
       /\ ~insights_in_progress => ControllerUnchanged]_vars

\* A click without a credential has been handled, while no run was in
\* progress.
C20_Witness ==
  /\ last_run.kind = "click"
  /\ openai_api_key = ""
  /\ ~insights_in_progress
  /\ last_run.processed = << >>

\* ------------------------------------------------------- the controller state
\* Whether p is a beginning of q.
IsPrefix(p, q) == Len(p) <= Len(q) /\ SubSeq(q, 1, Len(p)) = p

\* The state is the one a click that starts a run has just left.
JustTriggered == last_run.kind = "trigger"

ProcessingNow ==
  {i \in Tabs : progress_status[i] = "processing"
                  \/ IsCurrentTab(SessionAfter(0), i)}

\* C22: at most one index is being processed at a time, and a script run
\* runs the processing branch of at most one panel.
C22_SingleProcessing ==
  /\ Cardinality(ProcessingNow) <= 1
  /\ Len(last_run.processed) <= 1

\* The health panel is the one being processed, after the panel 2 was.
C22_Witness ==
  /\ ProcessingNow = {HealthTab}
  /\ last_run.processed = << HealthTab - 1 >>

\* C23: while a run is in progress the completed indices are exactly the
\* ones below current_processing_tab.
C23_PrefixCompletion ==
  insights_in_progress =>
    \A i \in Tabs : (i \in completed_tabs) <=> (i < current_processing_tab)

\* The run has reached the panel 4 through the except branch of the health
\* panel.
C23_Witness ==
  /\ insights_in_progress
  /\ current_processing_tab = HealthTab + 1
  /\ completed_tabs = 0 .. HealthTab
  /\ last_run.raised

\* The store keys the processing branch of the panel k assigns.
KeysOfTab(k) ==
  LET own == {InsightsKey(TopicNameOf(k))}
               \cup (IF k = HealthTab THEN {InsightsKey(t) : t \in SubTopics}
                     ELSE {})
  IN own \cup {TokenUsageKey(key) : key \in own}

\* A step that is a script run of the run in progress, not a click that
\* starts a new one.
CycleStep == last_run'.kind # "trigger"

\* C24: a script run does not run the processing branch of an index that is
\* in completed_tabs, and leaves what the store holds for it as it is.
C24_NoReprocessing ==
  [][CycleStep =>
       \A k \in completed_tabs :
         /\ \A j \in DOMAIN last_run'.processed : last_run'.processed[j] # k
         /\ last_run'.written \cap KeysOfTab(k) = {}
         /\ \A key \in KeysOfTab(k) : store'[key] = store[key]]_vars

\* A finished run was followed by one more script run, which processed
\* nothing.
C24_Witness ==
  /\ Terminal
  /\ run_log.cycles = NumTabs + 1
  /\ last_run.processed = << >>
  /\ last_run.docs # {}

\* -------------------------------------------------------- what the panels show
\* What the panel k shows in the script runs that follow, with the filter
\* and the credential as they are.
ShownNext(k) == Shown(store, matching_docs, openai_api_key, k)

\* The panel shows an error text: bullets of the store that are an error
\* message.
ShowsError(k) ==
  /\ ShownNext(k).kind = "stored"
  /\ ShownNext(k).insights.kind = "error"

\* C25 (as stated): after the cycle of the panel k ended in the except
\* branch, the panel k shows the error message: not the empty state, not
\* bullets the store held before, not other bullets.
C25_InlineFailureMessage ==
  \A k \in Tabs :
    (Processed(k) /\ last_run.raised /\ matching_docs # {})
      => ShowsError(k)

\* ----------------------------------------------------------- the advance rule
\* C26: the script run that processed the index i, through the end of the
\* try block or through the except branch, leaves current_processing_tab
\* at i + 1 with the run in progress when i < 7, and at -1 with the run
\* over when i = 7.
C26_AdvanceRule ==
  \A i \in Tabs :
    Processed(i) =>
      IF i = NumTabs - 1
      THEN ~insights_in_progress /\ current_processing_tab = -1
      ELSE insights_in_progress /\ current_processing_tab = i + 1

\* The last index was processed without an exception in a run in which an
\* earlier cycle went through the except branch.
C26_Witness ==
  /\ Processed(NumTabs - 1)
  /\ ~last_run.raised
  /\ run_log.raised
  /\ ~insights_in_progress

\* C27 (as stated): an index is in completed_tabs exactly when its status
\* is "completed".
C27_StatusAgrees ==
  \A i \in Tabs : (i \in completed_tabs) <=> (progress_status[i] = "completed")

\* ------------------------------------------------------ the throttle timestamp
\* C28 (as stated): at the end of every script run last_api_call is not
\* earlier than the end of the latest completion request: the timestamp is
\* at most as old as the request.
C28_TimestampFresh ==
  since_llm >= 0 => (last_api_call >= 0 /\ last_api_call <= since_llm)

\* ------------------------------------------------------- one topic per cycle
\* The progress state of the controller.
progressVars ==
  << progress_status, completed_tabs, current_processing_tab,
     insights_in_progress >>

\* C29: a script run adds at most one index to completed_tabs and moves
\* current_processing_tab by at most one step; it changes the progress
\* state only for the one panel it processed, and not at all when it
\* processed none.
C29_OneTopicPerCycle ==
  [][CycleStep =>
       /\ completed_tabs \subseteq completed_tabs'
       /\ Cardinality(completed_tabs' \ completed_tabs) <= 1
       /\ \/ current_processing_tab' = current_processing_tab
          \/ current_processing_tab' = current_processing_tab + 1
          \/ /\ current_processing_tab = NumTabs - 1
             /\ current_processing_tab' = -1
       /\ last_run'.processed = << >> => UNCHANGED progressVars
       /\ \A k \in Tabs :
            last_run'.processed = << k >> =>
              /\ k = current_processing_tab
              /\ completed_tabs' = completed_tabs \cup {k}
              /\ \A i \in Tabs \ {k} : progress_status'[i] = progress_status[i]]_vars

\* The panel 4 was processed by a script run that rendered the panels
\* before it from the store.
C29_Witness ==
  /\ Processed(HealthTab + 1)
  /\ completed_tabs = 0 .. (HealthTab + 1)
  /\ current_processing_tab = HealthTab + 2
  /\ \A i \in 0 .. HealthTab : store[InsightsKey(TopicNameOf(i))] # Absent

\* ------------------------------------------------------ the matching precedence
\* The rows the rule n selects for a sub-category: (1) 'Category' equal to
\* it, (2) 'Category' containing it, (3) 'SubCategory' equal to it,
\* (4) 'SubCategory' containing it.
RuleRows(n, subcategory) ==
  CASE n = 1 -> SelectSeq(extract_in.table, LAMBDA r : r.cat = subcategory)
    [] n = 2 -> SelectSeq(extract_in.table, LAMBDA r : Contains(r.cat, subcategory))
    [] n = 3 -> SelectSeq(extract_in.table, LAMBDA r : r.sub = subcategory)
    [] n = 4 -> SelectSeq(extract_in.table, LAMBDA r : Contains(r.sub, subcategory))

\* The first rule that selects a row, 0 when none does.
FirstRule(subcategory) ==
  IF \A n \in 1 .. 4 : RuleRows(n, subcategory) = << >> THEN 0
  ELSE CHOOSE n \in 1 .. 4 :
         /\ RuleRows(n, subcategory) # << >>
         /\ \A m \in 1 .. (n - 1) : RuleRows(m, subcategory) = << >>

\* The cells of a document in the rows of the first rule, the missing ones
\* left out.
FirstRuleValues(subcategory, doc_col) ==
  IF FirstRule(subcategory) = 0 THEN << >>
  ELSE LET rows == RuleRows(FirstRule(subcategory), subcategory)
           cells == [i \in DOMAIN rows |-> rows[i].cells[doc_col]]
       IN SelectSeq(cells, LAMBDA v : v # NaN)

\* The documents of the call that share their identifier with no other
\* document of the call.
Owners ==
  {i \in DOMAIN extract_in.matching_docs :
     \A j \in DOMAIN extract_in.matching_docs \ {i} :
       DocIdentifier(extract_in.table, extract_in.matching_docs[j])
         # DocIdentifier(extract_in.table, extract_in.matching_docs[i])}

\* The list the bundle holds for a document, a main category and a
\* sub-category, empty when it holds none.
Held(doc_col, main_category, subcategory) ==
  LET id == DocIdentifier(extract_in.table, doc_col) IN
  IF /\ id \in DOMAIN Bundle
     /\ main_category \in DOMAIN Bundle[id]
     /\ subcategory \in DOMAIN Bundle[id][main_category]
  THEN Bundle[id][main_category][subcategory] ELSE << >>

\* C30: what the bundle holds for a sub-category is taken from the rows of
\* the first rule that selects any row: the cells of the document in those
\* rows, or nothing when none of them has a value that is not blank, whatever
\* the rows of the later rules hold.
C30_MatchingPrecedence ==
  Extracted =>
    \A i \in Owners :
      \A g \in DOMAIN extract_in.categories_to_extract :
        \A a \in DOMAIN extract_in.categories_to_extract[g].subcategories :
          LET doc_col == extract_in.matching_docs[i]
              main_category == extract_in.categories_to_extract[g].name
              subcategory == extract_in.categories_to_extract[g].subcategories[a]
              values == FirstRuleValues(subcategory, doc_col)
          IN Held(doc_col, main_category, subcategory)
               = IF \E v \in DOMAIN values : NotBlank(values[v])
                 THEN values ELSE << >>

\* The table has a row of the category novel_findings without a value for
\* DocA and rows of the three later rules with values: the bundle holds
\* nothing for the sub-category.
C30_Witness ==
  /\ Extracted
  /\ extract_in.matching_docs = << "DocA" >>
  /\ extract_in.categories_to_extract = FullSchema
  /\ \A n \in 1 .. 4 : RuleRows(n, "novel_findings") # << >>
  /\ FirstRuleValues("novel_findings", "DocA") = << >>
  /\ \E r \in 1 .. Len(extract_in.table) : extract_in.table[r].cells["DocA"] = "d"
  /\ Bundle = << >>

\* ------------------------------------------------------ the display identifier
\* The identifier as stated: the cell of the document in the first row with
\* 'Main Category' meta_data and 'Category' title when there is such a row
\* and the cell is not missing, empty or blank; the column name otherwise.
StatedIdentifier(doc_col) ==
  LET meta == SelectSeq(extract_in.table,
                        LAMBDA r : r.main = "meta_data" /\ r.cat = "title")
  IN IF meta # << >> /\ meta[1].cells[doc_col] # NaN
        /\ NotBlank(meta[1].cells[doc_col])
     THEN meta[1].cells[doc_col] ELSE doc_col

\* C31 (as stated): a document extracted alone is keyed by its stated
\* identifier.
C31_DisplayIdentifier ==
  (Extracted /\ Len(extract_in.matching_docs) = 1)
    => DOMAIN Bundle \subseteq {StatedIdentifier(extract_in.matching_docs[1])}

\* ------------------------------------------------ the flag and the index
\* C32: in every reachable state insights_in_progress holds exactly when
\* current_processing_tab is one of 0..7, and it is false exactly when
\* current_processing_tab is -1.
C32_FlagConsistency ==
  /\ insights_in_progress <=> current_processing_tab \in 0 .. NumTabs - 1
  /\ ~insights_in_progress <=> current_processing_tab = -1

\* A run has ended through the except branch of the last panel.
C32_Witness ==
  /\ ~insights_in_progress /\ current_processing_tab = -1
  /\ last_run.raised /\ last_run.processed = << NumTabs - 1 >>

\* ------------------------------------------------- the empty filter result
\* A script run that is not a new trigger and whose filters match no document.
EmptyFilterCycle == CycleStep /\ last_run'.docs = {}

\* C33: a script run whose filters match no document changes none of the
\* statuses, completed_tabs, current_processing_tab, insights_in_progress,
\* the store, the cache and last_api_call; it processes no panel, so a run
\* in progress is at the same index after it.
C33_EmptyFilterResult ==
  [][EmptyFilterCycle =>
       /\ ControllerUnchanged
       /\ last_run'.processed = << >>
       /\ UNCHANGED << gen_calls, current_tab_index >>]_vars

\* A run in progress past its first panel has gone through a script run
\* whose filters matched no document.
C33_Witness ==
  /\ insights_in_progress /\ current_processing_tab > 0
  /\ current_processing_tab \notin completed_tabs
  /\ last_run.kind # "trigger" /\ last_run.docs = {}

\* ------------------------------------------------------------ idle stability
\* A script run that is not a new trigger, taken while no run is in progress.
IdleCycle == CycleStep /\ ~insights_in_progress

\* C36: while insights_in_progress is false, a refresh or an edit of the
\* filters or of the credential processes no panel, writes no store key, looks
\* nothing up in the cache and calls no LLM, and leaves the progress state,
\* the store, the cache and last_api_call as they were.
C36_IdleStability ==
  [][IdleCycle =>
       /\ last_run'.processed = << >> /\ last_run'.written = {}
       /\ UNCHANGED << progressVars, current_tab_index, store, cache,
                       gen_calls, failures, last_api_call, since_llm >>]_vars

\* A filter edit was handled after a run had finished with results stored.
C36_Witness ==
  /\ ~insights_in_progress /\ completed_tabs = Tabs
  /\ last_run.kind = "filter" /\ last_run.docs # {}
  /\ store[InsightsKey("Overview")] # Absent

\* --------------------------------------------------- results of an earlier run
\* The step processed the panel k without raising.
ProcessedSuccessfully(k) ==
  CycleStep /\ last_run'.processed = << k >> /\ ~last_run'.raised

StoreOfTabUnchanged(k) == \A key \in KeysOfTab(k) : store'[key] = store[key]

\* C35 (as stated): what the store holds for a topic changes only in a step
\* that processes the topic successfully; a click that starts a run and a
\* cycle that ends in the except branch leave it as it was.
C35_StaleResultsSurvive ==
  [][\A k \in Tabs : ~ProcessedSuccessfully(k) => StoreOfTabUnchanged(k)]_vars

\* C35: a click that starts a run leaves the store as it was; a store key
\* changes only in a script run that processes its topic and reaches the
\* assignment of the key, so a cycle that raised before that assignment
\* leaves the topic's result as it was; and a panel that is not processed
\* shows what the store holds for it whenever the filters match a document.
C35_StaleUntilSaved ==
  [][/\ last_run'.kind = "trigger" => UNCHANGED store
     /\ \A k \in Tabs : \A key \in KeysOfTab(k) :
          store'[key] # store[key] =>
            /\ CycleStep
            /\ last_run'.processed = << k >>
            /\ key \in last_run'.written
     /\ \A k \in Tabs :
          (matching_docs' # {} /\ store'[InsightsKey(TopicNameOf(k))] # Absent) =>
            Shown(store', matching_docs', openai_api_key', k)
              = [kind |-> "stored",
                 insights |-> store'[InsightsKey(TopicNameOf(k))]]]_vars

\* A second run is in progress and a panel it has not reached holds the
\* result of the first run.
C35_Witness ==
  /\ triggers = 2 /\ insights_in_progress
  /\ current_processing_tab \in 1 .. 4
  /\ 5 \notin completed_tabs
  /\ store[InsightsKey(TopicNameOf(5))] # Absent
  /\ ShownNext(5).kind = "stored"

\* -------------------------------------------------------- errors in the cache
\* The call i was a miss whose request failed.
FailedCall(i) ==
  /\ ~call_log[i].hit /\ call_log[i].network
  /\ call_log[i].outcome = "error"

\* The entry of the key of call i was evicted between call i and the latest
\* call.
EvictedSince(i) ==
  \E m \in (i + 1) .. (NumCalls - 1) : call_log[i].key \in call_log[m].evicted

\* C34: a call whose request fails returns the error bullet with the zero
\* usage record and leaves them in the cache under its key; a later call with
\* the same key returns the same pair as a hit, with no request and no
\* invocation of the generation function, as long as the entry was not
\* evicted in between.
C34_ErrorsMemoized ==
  NumCalls > 0 =>
    /\ FailedCall(NumCalls) =>
         /\ LatestCall.ret.insights = ErrorInsights(LatestCall.key, LatestCall.gen, "error")
         /\ LatestCall.ret.token_usage = ZeroUsage
         /\ cache # << >>
         /\ cache[Len(cache)] = [key |-> LatestCall.key, val |-> LatestCall.ret]
    /\ \A i \in 1 .. (NumCalls - 1) :
         (FailedCall(i) /\ call_log[i].key = LatestCall.key /\ ~EvictedSince(i)) =>
           /\ LatestCall.hit /\ ~LatestCall.network /\ LatestCall.requests = 0
           /\ LatestCall.gen = GenBefore(NumCalls)
           /\ LatestCall.ret = call_log[i].ret
           /\ LatestCall.ret.insights.kind = "error"

\* The key of a failed request was presented again, with other keys in
\* between, and the error bullet came back from the cache.
C34_Witness ==
  /\ NumCalls > 2
  /\ FailedCall(1) /\ call_log[1].key = LatestCall.key
  /\ ~EvictedSince(1)
  /\ LatestCall.hit /\ LatestCall.ret.insights.kind = "error"

\* ------------------------------------------------- documents with one identifier
\* The identifier and the facts of the i-th document of the call.
IdOf(i) == DocIdentifier(extract_in.table, extract_in.matching_docs[i])

FactsOf(i) ==
  DocInsights(extract_in.table, extract_in.matching_docs[i],
              extract_in.categories_to_extract)

WithData == {i \in DOMAIN extract_in.matching_docs : DOMAIN FactsOf(i) # {}}

\* The documents of the call that resolve to the identifier id.
Sharers(id) == {i \in DOMAIN extract_in.matching_docs : IdOf(i) = id}

Last(S) == CHOOSE i \in S : \A j \in S : j <= i

\* C37 (as stated): when two documents of the call resolve to one identifier
\* and any of them has data, the bundle holds under it the facts of the one
\* that comes later in the input order; the bundle has as many keys as the
\* documents with data have distinct identifiers.
C37_IdentifierCollision ==
  Extracted =>
    /\ \A i \in DOMAIN extract_in.matching_docs :
         (Cardinality(Sharers(IdOf(i))) > 1 /\ Sharers(IdOf(i)) \cap WithData # {}) =>
           /\ IdOf(i) \in DOMAIN Bundle
           /\ Bundle[IdOf(i)] = FactsOf(Last(Sharers(IdOf(i))))
    /\ Cardinality(DOMAIN Bundle) = Cardinality({IdOf(i) : i \in WithData})

\* C37: when two documents of the call resolve to one identifier, the bundle
\* holds under it the facts of the last of them, in the input order, that
\* has data, and no entry when none has; the bundle has as many keys as the
\* documents with data have distinct identifiers.
C37_LastWithDataWins ==
  Extracted =>
    /\ \A i \in DOMAIN extract_in.matching_docs :
         Cardinality(Sharers(IdOf(i))) > 1 =>
           IF Sharers(IdOf(i)) \cap WithData = {}
           THEN IdOf(i) \notin DOMAIN Bundle
           ELSE /\ IdOf(i) \in DOMAIN Bundle
                /\ Bundle[IdOf(i)] = FactsOf(Last(Sharers(IdOf(i)) \cap WithData))
    /\ Cardinality(DOMAIN Bundle) = Cardinality({IdOf(i) : i \in WithData})

\* Two documents with data and different facts share the title; the bundle
\* has the one key.
C37_Witness ==
  /\ Extracted
  /\ Len(extract_in.matching_docs) = 2
  /\ IdOf(1) = IdOf(2)
  /\ WithData = {1, 2}
  /\ FactsOf(1) # FactsOf(2)
  /\ DOMAIN Bundle = {IdOf(2)}
  /\ Bundle[IdOf(2)] = FactsOf(2)

\* ------------------------------------------------- lines before the first bullet
\* The non-empty lines that precede the first line starting with the glyph.
Preamble ==
  {i \in DOMAIN Lines : Lines[i] # << >> /\ \A j \in GlyphLines : i < j}

\* The characters of a text that are words.
Words(text) ==
  SelectSeq(text, LAMBDA ch : ch \notin {Glyph, Blank, LineBreak, Colon})

\* The words of the lines i .. last, and of the bullets k .. last, in order.
RECURSIVE WordsOfLines(_, _)
WordsOfLines(i, last) ==
  IF i > last THEN << >> ELSE Words(Lines[i]) \o WordsOfLines(i + 1, last)

RECURSIVE WordsOfBullets(_)
WordsOfBullets(k) ==
  IF k > Len(bullet_points) THEN << >>
  ELSE Words(bullet_points[k]) \o WordsOfBullets(k + 1)

\* C38: when a line starts with the glyph, there are as many bullets as
\* lines starting with the glyph, and the bullets hold the words of the lines
\* from the first such line on and no others: the lines before it are in no
\* bullet.  "Here are the insights: / / * A" parses to the one bullet "* A".
C38_PreambleDropped ==
  (parse_done /\ GlyphLines # {})
    => /\ Len(bullet_points) = Cardinality(GlyphLines)
       /\ WordsOfBullets(1) = WordsOfLines(KthGlyphLine(1), Len(Lines))
       /\ insights_text = PreambleText
            => bullet_points = << << Glyph, Blank, "A" >> >>

C38_Witness ==
  /\ parse_done
  /\ insights_text = PreambleText
  /\ Preamble = {1}
  /\ bullet_points = << << Glyph, Blank, "A" >> >>

\* ------------------------------------------------- the cache of the process
\* The sessions that have finished a call.
Finished == {s \in Sessions : callers[s].pc = "idle" /\ callers[s].done > 0}

\* All the requests the sessions have made to the LLM.
AllGenerated == UNION {callers[s].generated : s \in Sessions}

\* C39: the table is one for all sessions: a call whose key the table held,
\* whichever session generated the entry, returns that entry with no request
\* to the LLM; a call whose key it did not hold makes one request of its own,
\* also when another session is generating the same key at that time, so
\* the requests made are those of all the misses and the table still holds
\* each key once.
C39_ProcessWideCache ==
  /\ \A s \in Finished :
       IF callers[s].held
       THEN /\ callers[s].hit /\ callers[s].requests = 0
            /\ \E e \in AllGenerated :
                 /\ e.key = callers[s].key
                 /\ e.call = callers[s].ret.insights.call
       ELSE /\ ~callers[s].hit /\ callers[s].requests = 1
            /\ [key |-> callers[s].key, call |-> callers[s].ret.insights.call]
                 \in callers[s].generated
  /\ gen_calls = Cardinality(AllGenerated)
  /\ \A i, j \in 1 .. Len(cache) : cache[i].key = cache[j].key => i = j

\* Both sessions generated the same key, each with a request of its own,
\* and the second session was then served the entry of the first.
C39_Witness ==
  /\ \E e1 \in callers[1].generated, e2 \in callers[2].generated :
       e1.key = e2.key /\ e1.key = callers[2].key
  /\ gen_calls = 2 /\ Len(cache) = 1
  /\ callers[2].pc = "idle" /\ callers[2].hit /\ callers[2].requests = 0
  /\ \E e \in callers[1].generated : e.call = callers[2].ret.insights.call
====
